---- MODULE Spec2Model ----
(***************************************************************************)
(* A model of the request-serving pipeline of the LLM cache proxy:         *)
(*   - app/routers/proxy.py       chat_completions (exact lookup, semantic *)
(*                                lookup, upstream call, store, logging)   *)
(*   - app/services/cache_service.py   the cache store operations          *)
(*   - app/middleware/usage_middleware.py  the quota and rate middlewares  *)
(*   - app/services/subscription_service.py  quota lookups and counters    *)
(*   - app/middleware/security_middleware.py  the middleware the app adds  *)
(*                                                                         *)
(* Every task slot runs one operation at a time.  The database tables are  *)
(* shared by all service instances; the handlers of one instance never     *)
(* interleave, because the handler awaits only coroutines that call the    *)
(* blocking database / provider clients and so never yields to the event   *)
(* loop; handlers of different instances interleave at every call.         *)
(***************************************************************************)
EXTENDS Integers, Sequences, FiniteSets, TLC

(***************************************************************************)
(* Bounds of the model.                                                    *)
(***************************************************************************)
NumSlots == 2        \* concurrent tasks
NumInstances == 2    \* service instances sharing the database
MaxIssued == 3       \* operations started in one behaviour
MaxRows == 7         \* rows of cache_entries drawn by the lookup specification
MaxEmbed == 4        \* embeddings are points 0..MaxEmbed
MaxSame == 2         \* drawn rows of one owner with the same embedding
MaxTime == 1         \* the clock runs over minutes 0..MaxTime
MaxCalls == 11       \* middleware calls started in one behaviour
MaxGate == 2         \* gate calls started in one behaviour
MaxDays == 2         \* the days that pass in the specification of expiry
MaxMinute == 2       \* the minutes that pass in the specification of pruning

Slots == 1..NumSlots
Instances == 1..NumInstances
Owners == {"u1", "u2"}

(***************************************************************************)
(* Request inputs.  A message is a dict, kept as its sequence of           *)
(* <<key, value>> pairs in insertion order; a model name is its sequence   *)
(* of characters, so that startswith is computed, not assumed.             *)
(***************************************************************************)
MsgA == << <<"role", "user">>, <<"content", "a">> >>
MsgB == << <<"role", "user">>, <<"content", "b">> >>
MessageLists == { <<MsgA>>, <<MsgB>> }

ModelGpt == <<"g", "p", "t", "4">>
ModelClaude == <<"c", "l", "a", "u", "d", "e">>
ModelLlama == <<"l", "l", "a", "m", "a">>
Models == {ModelGpt, ModelClaude, ModelLlama}

StartsWith(s, p) == Len(p) <= Len(s) /\ SubSeq(s, 1, Len(p)) = p

\* What the upstream provider may answer, and the tokens it bills for it.
Answers == {"r1", "r2"}
TokensOf(answer) == IF answer = "r1" THEN 10 ELSE 20

(***************************************************************************)
(* json.dumps and the query hash (cache_service.generate_query_hash).      *)
(***************************************************************************)
\* Alphabetical order of the keys a message can hold.
KeyRank(k) == IF k = "content" THEN 1 ELSE 2

\* The pairs of one dict in the order json.dumps writes them.
DumpDict(d, sort_keys) ==
    IF ~sort_keys THEN d
    ELSE LET n == Len(d)
             \* position of pair i once sorted by key (keys of a dict are distinct)
             pos(i) == Cardinality({j \in 1..n : KeyRank(d[j][1]) < KeyRank(d[i][1])}) + 1
         IN [p \in 1..n |-> d[CHOOSE i \in 1..n : pos(i) = p]]

\* json.dumps of a list of dicts: the list order is kept.
json_dumps(messages, sort_keys) ==
    [i \in 1..Len(messages) |-> DumpDict(messages[i], sort_keys)]

\* SHA-256 is collision resistant: the digest stands for the string hashed.
sha256(s) == <<"sha256", s>>

\* generate_query_hash with json.dumps leaving the keys in insertion order.
generate_query_hash_Unsorted(messages, model) ==
    sha256(<< <<"messages", json_dumps(messages, FALSE)>>, <<"model", model>> >>)

generate_query_hash(messages, model) ==
    sha256(<< <<"messages", json_dumps(messages, TRUE)>>, <<"model", model>> >>)

QueryText(messages) == json_dumps(messages, FALSE)

(***************************************************************************)
(* The embedding collaborator and the similarity of two embeddings.        *)
(* An embedding is a point of 0..MaxEmbed; similarity is in percent and is *)
(* 100 for equal embeddings.                                               *)
(***************************************************************************)
Embed(text) == IF text = QueryText(<<MsgA>>) THEN 0 ELSE 2

Abs(x) == IF x < 0 THEN -x ELSE x
Similarity(e1, e2) == 100 - 5 * Abs(e1 - e2)


(***************************************************************************)
(* State.                                                                  *)
(***************************************************************************)
VARIABLES
    cache_entries,   \* table cache_entries: sequence of rows, a row's id is its index
    usage_logs,      \* table usage_logs: sequence of rows, append-only
    monthly_usage,   \* table monthly_usage: sequence of rows
    request_counts,  \* RateLimitMiddleware.request_counts of each instance
    user_subscriptions, \* table user_subscriptions: the plan name of each owner
    plan_flags,      \* table subscription_plans: the capability columns of each plan
    user_features,   \* table user_features: rows (user_id, feature_name, enabled)
    refresh_tokens,  \* table refresh_tokens: sequence of rows
    forwarded,       \* requests the admission middleware passed on, by key
    now,             \* the clock, in minutes
    pc,              \* position of each task
    req,             \* the inputs of each task
    loc,             \* the local variables of each task
    resp,            \* the response each task returned
    issued           \* operations started so far

vars == <<cache_entries, usage_logs, monthly_usage, request_counts,
          user_subscriptions, plan_flags, user_features, refresh_tokens, forwarded, now, pc, req,
          loc, resp, issued>>

\* What the chat-completions handler never touches.
accounts == <<monthly_usage, request_counts, user_subscriptions, plan_flags,
              user_features, refresh_tokens, forwarded>>

tables == <<cache_entries, usage_logs, accounts>>

\* Absent values: id 0, similarity -1, usage -1, the string "None".
\* The keys of forwarded: an owner, or "None" for a request the middleware
\* resolved no identity for, and the minute of the clock.
LastMinute == IF MaxMinute > MaxTime THEN MaxMinute ELSE MaxTime
ForwardKeys == (Owners \cup {"None"}) \X (0..LastMinute)

\* The names of the rows of table subscription_plans: the four plans of the
\* application and one more that the application does not know.
PlanNames == {"free", "startup", "business", "enterprise", "legacy"}

\* The capability columns of a plan that grants nothing: the boolean column
\* advanced_analytics and the JSON column features.
NoFlags == [advanced_analytics |-> FALSE, features |-> <<>>]

NoReq == [kind |-> "none", owner |-> "u1", messages |-> <<>>, model |-> <<>>, inst |-> 1]

NoLoc == [query_hash |-> <<>>, query_text |-> <<>>, match |-> 0, cache_type |-> "None",
          similarity |-> -1, content |-> "None", current |-> -1, new_count |-> -1,
          tokens |-> -1, cost |-> -1, stages |-> <<>>, fails |-> {},
          semantic_matches |-> <<>>,
          user_id |-> "None", limits |-> <<>>, route |-> "None", forwards |-> 0,
          minute |-> 0,
          pre_id |-> 0, pre_hits |-> -1, pre_entries |-> <<>>, pre_logs |-> <<>>,
          existing |-> <<>>, required |-> "None", user_plan |-> "None",
          error |-> {}, calls |-> <<>>, stalled |-> FALSE,
          was_active |-> FALSE, new_refresh_token |-> <<>>]

\* The body of a response that is not one of the stats endpoint.
NoStats == [total_requests |-> -1, cache_hits |-> -1, cache_hit_rate |-> <<0, 0>>,
            total_cost_saved |-> -1, total_tokens_saved |-> -1]

\* What check_usage_limit answers, before it has: no dict and no detail.
NoQuota == [allow |-> FALSE, overage |-> FALSE, overage_amount |-> -1,
            current_usage |-> -1, limit |-> -1]

NoResp == [status |-> 0, cached |-> FALSE, cache_type |-> "None", content |-> "None",
           similarity |-> -1, usage |-> -1, code |-> "None", retry_after |-> -1,
           stats |-> NoStats, quota |-> NoQuota, refresh_token |-> <<>>]

Init ==
    /\ cache_entries = <<>>
    /\ usage_logs = <<>>
    /\ monthly_usage = <<>>
    /\ request_counts = [i \in Instances |-> <<>>]
    /\ user_subscriptions = [o \in Owners |-> "none"]
    /\ plan_flags = [n \in PlanNames |-> NoFlags]
    /\ user_features = {}
    /\ refresh_tokens = <<>>
    /\ forwarded = [k \in ForwardKeys |-> 0]
    /\ now = 0
    /\ pc = [r \in Slots |-> "idle"]
    /\ req = [r \in Slots |-> NoReq]
    /\ loc = [r \in Slots |-> NoLoc]
    /\ resp = [r \in Slots |-> NoResp]
    /\ issued = 0

(***************************************************************************)
(* The cache store (app/services/cache_service.py).                        *)
(***************************************************************************)
\* ExactRows without the filter on user_id.
ExactRows_AnyOwner(query_hash, user_id) ==
    {i \in DOMAIN cache_entries : cache_entries[i].query_hash = query_hash}

\* .eq("query_hash", h).eq("user_id", u): the ids of the rows selected.
ExactRows(query_hash, user_id) ==
    {i \in DOMAIN cache_entries :
        /\ cache_entries[i].query_hash = query_hash
        /\ cache_entries[i].user_id = user_id}

\* get_exact_match of a store that leaves out the entries whose expires_at
\* has passed.
get_exact_match_Fresh(query_hash, user_id, db_ok) ==
    LET rows == {i \in ExactRows(query_hash, user_id) : cache_entries[i].expires_at > now}
    IN IF db_ok /\ Cardinality(rows) = 1 THEN CHOOSE i \in rows : TRUE ELSE 0

\* get_exact_match: .single() gives the row when exactly one is selected and
\* raises otherwise; every exception is answered with None (id 0).
get_exact_match(query_hash, user_id, db_ok) ==
    LET rows == ExactRows(query_hash, user_id)
    IN IF db_ok /\ Cardinality(rows) = 1 THEN CHOOSE i \in rows : TRUE ELSE 0

\* The similarity search of the store: the owner's rows whose similarity to the
\* query embedding reaches the threshold, best first, at most match_count of
\* them.  Rows of equal similarity come in any order.
Candidates(query_embedding, match_threshold, user_id_filter) ==
    {i \in DOMAIN cache_entries :
        /\ cache_entries[i].user_id = user_id_filter
        /\ Similarity(cache_entries[i].query_embedding, query_embedding) >= match_threshold}

RECURSIVE Ranked(_, _, _)
Ranked(S, query_embedding, k) ==
    IF S = {} \/ k = 0 THEN { <<>> }
    ELSE LET sim(i) == Similarity(cache_entries[i].query_embedding, query_embedding)
             best == {i \in S : \A j \in S : sim(j) <= sim(i)}
         IN UNION { { <<[id |-> i,
                         response_text |-> cache_entries[i].response_text,
                         similarity |-> sim(i)]>> \o t :
                      t \in Ranked(S \ {i}, query_embedding, k - 1) } : i \in best }

match_cache_entries(query_embedding, match_threshold, match_count, user_id_filter) ==
    Ranked(Candidates(query_embedding, match_threshold, user_id_filter),
           query_embedding, match_count)

\* get_semantic_matches(query_text, user_id, threshold = 0.85): the possible
\* results.  A failure of the embedding or of the search is answered with [].
DefaultThreshold == 85
MatchCount == 5

get_semantic_matches(query_text, user_id, embed_ok, db_ok) ==
    IF embed_ok /\ db_ok
    THEN match_cache_entries(Embed(query_text), DefaultThreshold, MatchCount, user_id)
    ELSE { <<>> }

\* BestMatch taking the last result instead of the first.
BestMatch_Last(semantic_matches) == semantic_matches[Len(semantic_matches)]

\* chat_completions: best_match = semantic_matches[0]
BestMatch(semantic_matches) == semantic_matches[1]

\* store_cache_entry: the row inserted.
TtlMinutes == 1440
NewCacheEntry(user_id, query_hash, query_text, response_text, model, tokens_used, cost) ==
    [user_id |-> user_id,
     query_hash |-> query_hash,
     query_text |-> query_text,
     query_embedding |-> Embed(query_text),
     response_text |-> response_text,
     model_used |-> model,
     tokens_saved |-> tokens_used,
     cost_saved |-> cost,
     expires_at |-> now + TtlMinutes,
     hit_count |-> 0]

\* InsertAllowed for a table that accepts every row.
InsertAllowed_Always(row) == TRUE

\* The table keeps one row per (user_id, query_hash): an insert of a second
\* one is refused.
InsertAllowed(row) ==
    \A i \in DOMAIN cache_entries :
        ~(cache_entries[i].user_id = row.user_id /\ cache_entries[i].query_hash = row.query_hash)

\* NewCount without the increment.
NewCount_Same(current) == current

\* update_hit_count: new_count = current.data["hit_count"] + 1
NewCount(current) == current + 1

\* log_usage: the row inserted.
UsageLog(user_id, cache_hit, tokens_used, cost, model) ==
    [user_id |-> user_id, cache_hit |-> cache_hit, tokens_used |-> tokens_used,
     cost |-> cost, model_used |-> model]

\* chat_completions: cost = tokens_used * (0.002 / 1000), kept in millionths of a dollar.
CostPerTokenMicro == 2
CostOf(tokens_used) == tokens_used * CostPerTokenMicro


(***************************************************************************)
(* The middleware the application installs                                 *)
(* (security_middleware.setup_security_middleware, called by main.py).     *)
(* add_middleware puts each middleware in front of those added before, so  *)
(* a request meets them in the reverse of the order they were added.       *)
(***************************************************************************)
AddedMiddleware ==
    <<"CORSMiddleware", "SecurityHeadersMiddleware", "InputValidationMiddleware",
      "RequestLoggingMiddleware", "AuthenticationMiddleware", "SlowAPIMiddleware">>

Reverse(s) == [i \in 1..Len(s) |-> s[Len(s) + 1 - i]]

MiddlewareStack == Reverse(AddedMiddleware)

\* The admission stages, in the order of the admission pipeline.
AdmissionStages ==
    <<"UsageTrackingMiddleware", "RateLimitMiddleware", "FeatureGateMiddleware">>

(***************************************************************************)
(* POST /api/v1/chat/completions (app/routers/proxy.py chat_completions).  *)
(* Each call of a collaborator is one step; F is the set of outcomes the   *)
(* collaborators may have (TRUE: the call succeeds).                       *)
(***************************************************************************)
InHandler == {"semantic", "hit_read", "hit_write", "log", "llm", "store"}

\* The event loop of r's instance is free for r: no other handler of the
\* instance is between its first and its last step.
MayRun(r) ==
    \A s \in Slots \ {r} : req[s].inst = req[r].inst => pc[s] \notin InHandler

Fail(r, what, ok) == IF ok THEN loc[r].fails ELSE loc[r].fails \cup {what}

\* A client sends a chat-completions request whose identity has been resolved;
\* it passes the middleware the application installed and reaches the route
\* handler.  pre_id and pre_hits remember the owner's entry for this request,
\* and its hit count, as they are when the request arrives; pre_entries and
\* pre_logs remember the two tables.
Issue(r, limit, insts) ==
    /\ pc[r] \in {"idle", "done"}
    /\ issued < limit
    /\ \E o \in Owners, m \in MessageLists, md \in Models, i \in insts :
          LET h == generate_query_hash(m, md)
              pre == get_exact_match(h, o, TRUE)
          IN /\ req' = [req EXCEPT ![r] = [kind |-> "chat", owner |-> o, messages |-> m,
                                           model |-> md, inst |-> i]]
             /\ loc' = [loc EXCEPT ![r] =
                          [NoLoc EXCEPT !.stages = MiddlewareStack,
                                        !.pre_id = pre,
                                        !.pre_hits = IF pre = 0 THEN -1
                                                     ELSE cache_entries[pre].hit_count,
                                        !.pre_entries = cache_entries,
                                        !.pre_logs = usage_logs]]
    /\ pc' = [pc EXCEPT ![r] = "exact"]
    /\ resp' = [resp EXCEPT ![r] = NoResp]
    /\ issued' = issued + 1
    /\ UNCHANGED <<tables, now>>

\* calls of a task: the lookups, the provider call and the store it has made
\* so far, each with whether it found an entry.
Called(op, found) == [op |-> op, found |-> found]

\* AfterExact of a handler that goes on to the semantic lookup whatever the
\* exact lookup found.
AfterExact_Always(m) == "semantic"

\* Where chat_completions goes after get_exact_match returned entry m (0: None).
AfterExact(m) == IF m # 0 THEN "hit_read" ELSE "semantic"

\* query_hash, query_text, get_exact_match; on a match the handler goes on to
\* update_hit_count, otherwise to the semantic lookup.
ExactLookup(r, F) ==
    /\ pc[r] = "exact"
    /\ MayRun(r)
    /\ \E ok \in F :
          LET h == generate_query_hash(req[r].messages, req[r].model)
              t == QueryText(req[r].messages)
              m == get_exact_match(h, req[r].owner, ok)
          IN /\ loc' = [loc EXCEPT ![r].query_hash = h,
                                   ![r].query_text = t,
                                   ![r].match = m,
                                   ![r].cache_type = IF m # 0 THEN "exact" ELSE "None",
                                   ![r].content = IF m # 0 THEN cache_entries[m].response_text
                                                  ELSE "None",
                                   ![r].fails = Fail(r, "exact", ok),
                                   ![r].calls = Append(@, Called("exact", m # 0))]
             /\ pc' = [pc EXCEPT ![r] = AfterExact(m)]
    /\ UNCHANGED <<tables, now, req, resp, issued>>

\* get_semantic_matches; on a match the handler serves the best one.
SemanticLookup(r, F) ==
    /\ pc[r] = "semantic"
    /\ MayRun(r)
    /\ \E embed_ok \in F, db_ok \in F :
       \E semantic_matches \in
              get_semantic_matches(loc[r].query_text, req[r].owner, embed_ok, db_ok) :
          LET fails == (IF embed_ok THEN {} ELSE {"embed_lookup"})
                       \cup (IF db_ok THEN {} ELSE {"search"})
          IN IF semantic_matches # <<>>
             THEN LET best_match == BestMatch(semantic_matches)
                  IN /\ loc' = [loc EXCEPT ![r].semantic_matches = semantic_matches,
                                           ![r].match = best_match.id,
                                           ![r].cache_type = "semantic",
                                           ![r].content = best_match.response_text,
                                           ![r].similarity = best_match.similarity,
                                           ![r].fails = @ \cup fails,
                                           ![r].calls = Append(@, Called("semantic", TRUE))]
                     /\ pc' = [pc EXCEPT ![r] = "hit_read"]
             ELSE /\ loc' = [loc EXCEPT ![r].fails = @ \cup fails,
                                        ![r].calls = Append(@, Called("semantic", FALSE))]
                  /\ pc' = [pc EXCEPT ![r] = "llm"]
    /\ UNCHANGED <<tables, now, req, resp, issued>>

\* update_hit_count, first half: select hit_count of the matched row.  An
\* exception ends update_hit_count (it is logged, not raised).
HitRead(r, F) ==
    /\ pc[r] = "hit_read"
    /\ MayRun(r)
    /\ \E ok \in F :
          IF ok
          THEN /\ loc' = [loc EXCEPT ![r].current = cache_entries[loc[r].match].hit_count,
                                     ![r].new_count =
                                         NewCount(cache_entries[loc[r].match].hit_count)]
               /\ pc' = [pc EXCEPT ![r] = "hit_write"]
          ELSE /\ loc' = [loc EXCEPT ![r].fails = @ \cup {"hit_count"}]
               /\ pc' = [pc EXCEPT ![r] = "log"]
    /\ UNCHANGED <<tables, now, req, resp, issued>>

\* update_hit_count, second half: update hit_count of the matched row.
HitWrite(r, F) ==
    /\ pc[r] = "hit_write"
    /\ MayRun(r)
    /\ \E ok \in F :
          IF ok
          THEN /\ cache_entries' =
                     [cache_entries EXCEPT ![loc[r].match].hit_count = loc[r].new_count]
               /\ loc' = loc
          ELSE /\ loc' = [loc EXCEPT ![r].fails = @ \cup {"hit_count"}]
               /\ cache_entries' = cache_entries
    /\ pc' = [pc EXCEPT ![r] = "log"]
    /\ UNCHANGED <<usage_logs, accounts, now, req, resp, issued>>

\* The response chat_completions builds once the usage is logged.
\* HitResponse naming every hit an exact one.
HitResponse_AlwaysExact(r) ==
    [NoResp EXCEPT !.status = 200, !.cached = TRUE, !.cache_type = "exact",
                   !.content = loc[r].content, !.similarity = loc[r].similarity]

HitResponse(r) ==
    [NoResp EXCEPT !.status = 200, !.cached = TRUE, !.cache_type = loc[r].cache_type,
                   !.content = loc[r].content, !.similarity = loc[r].similarity]

MissResponse(r) ==
    [NoResp EXCEPT !.status = 200, !.content = loc[r].content,
                   !.usage = loc[r].tokens]

ErrorResponse(status_code) == [NoResp EXCEPT !.status = status_code]

\* AfterLogUsage with the exception of the insert left to propagate.
AfterLogUsage_Raises(ok, response) == IF ok THEN response ELSE ErrorResponse(500)

\* log_usage catches every exception of its insert and only logs it: the
\* handler returns the response it was about to return, whatever the outcome.
AfterLogUsage(ok, response) == response

\* log_usage inserting the usage row twice.
log_usage_Twice(r, cache_hit, tokens_used, cost, ok) ==
    IF ok
    THEN /\ usage_logs' = usage_logs \o
                << UsageLog(req[r].owner, cache_hit, tokens_used, cost, req[r].model),
                   UsageLog(req[r].owner, cache_hit, tokens_used, cost, req[r].model) >>
         /\ loc' = loc
    ELSE /\ usage_logs' = usage_logs
         /\ loc' = [loc EXCEPT ![r].fails = @ \cup {"log"}]

\* log_usage inserts the usage row and swallows its own failure.
log_usage(r, cache_hit, tokens_used, cost, ok) ==
    IF ok
    THEN /\ usage_logs' = Append(usage_logs,
                UsageLog(req[r].owner, cache_hit, tokens_used, cost, req[r].model))
         /\ loc' = loc
    ELSE /\ usage_logs' = usage_logs
         /\ loc' = [loc EXCEPT ![r].fails = @ \cup {"log"}]

\* log_usage and the return of the response, on a hit and on a miss.
LogUsage(r, F) ==
    /\ pc[r] = "log"
    /\ MayRun(r)
    /\ \E ok \in F :
          IF loc[r].match # 0
          THEN /\ log_usage(r, TRUE, 0, 0, ok)
               /\ resp' = [resp EXCEPT ![r] = AfterLogUsage(ok, HitResponse(r))]
          ELSE /\ log_usage(r, FALSE, loc[r].tokens, loc[r].cost, ok)
               /\ resp' = [resp EXCEPT ![r] = AfterLogUsage(ok, MissResponse(r))]
    /\ pc' = [pc EXCEPT ![r] = "done"]
    /\ UNCHANGED <<cache_entries, accounts, now, req, issued>>

\* The exceptions a provider call raises, each kept as the set of the words
\* of ErrorWords that its text contains.
ErrorWords == {"timeout", "unauthorized"}
UpstreamErrors == SUBSET ErrorWords

\* handle_external_service_error: the status of the HTTPException it raises
\* for an exception with the words of e in its text.
handle_external_service_error(e) ==
    IF "timeout" \in e THEN 504
    ELSE IF "unauthorized" \in e THEN 503
    ELSE 502

\* CallLLM writing a usage row for the request whose provider call failed.
CallLLM_LogsFailure(r, F) ==
    /\ pc[r] = "llm"
    /\ MayRun(r)
    /\ IF StartsWith(req[r].model, <<"g", "p", "t">>)
       THEN \E ok \in F, answer \in Answers, e \in UpstreamErrors :
               IF ok
               THEN /\ loc' = [loc EXCEPT ![r].content = answer,
                                          ![r].tokens = TokensOf(answer),
                                          ![r].cost = CostOf(TokensOf(answer)),
                                          ![r].calls = Append(@, Called("llm", FALSE))]
                    /\ pc' = [pc EXCEPT ![r] = "store"]
                    /\ resp' = resp
                    /\ usage_logs' = usage_logs
               ELSE /\ loc' = [loc EXCEPT ![r].fails = @ \cup {"llm"},
                                          ![r].error = e,
                                          ![r].calls = Append(@, Called("llm", FALSE))]
                    /\ pc' = [pc EXCEPT ![r] = "done"]
                    /\ resp' = [resp EXCEPT ![r] = ErrorResponse(500)]
                    /\ usage_logs' = Append(usage_logs,
                           UsageLog(req[r].owner, FALSE, 0, 0, req[r].model))
       ELSE IF StartsWith(req[r].model, <<"c", "l", "a", "u", "d", "e">>)
       THEN /\ loc' = [loc EXCEPT ![r].fails = @ \cup {"llm"},
                                  ![r].calls = Append(@, Called("llm", FALSE))]
            /\ pc' = [pc EXCEPT ![r] = "done"]
            /\ resp' = [resp EXCEPT ![r] = ErrorResponse(500)]
            /\ usage_logs' = Append(usage_logs,
                   UsageLog(req[r].owner, FALSE, 0, 0, req[r].model))
       ELSE /\ loc' = loc
            /\ pc' = [pc EXCEPT ![r] = "done"]
            /\ resp' = [resp EXCEPT ![r] = ErrorResponse(400)]
            /\ usage_logs' = usage_logs
    /\ UNCHANGED <<cache_entries, accounts, now, req, issued>>

\* Cache miss: the provider is chosen by the prefix of the model name.
\* An exception of the provider reaches the except clause of
\* chat_completions, which answers 500 whatever the exception.
\* call_anthropic raises NotImplementedError; any other family is refused with
\* 400; an exception of the provider becomes a 500.
CallLLM(r, F) ==
    /\ pc[r] = "llm"
    /\ MayRun(r)
    /\ IF StartsWith(req[r].model, <<"g", "p", "t">>)
       THEN \E ok \in F, answer \in Answers, e \in UpstreamErrors :
               IF ok
               THEN /\ loc' = [loc EXCEPT ![r].content = answer,
                                          ![r].tokens = TokensOf(answer),
                                          ![r].cost = CostOf(TokensOf(answer)),
                                          ![r].calls = Append(@, Called("llm", FALSE))]
                    /\ pc' = [pc EXCEPT ![r] = "store"]
                    /\ resp' = resp
               ELSE /\ loc' = [loc EXCEPT ![r].fails = @ \cup {"llm"},
                                          ![r].error = e,
                                          ![r].calls = Append(@, Called("llm", FALSE))]
                    /\ pc' = [pc EXCEPT ![r] = "done"]
                    /\ resp' = [resp EXCEPT ![r] = ErrorResponse(500)]
       ELSE IF StartsWith(req[r].model, <<"c", "l", "a", "u", "d", "e">>)
       THEN /\ loc' = [loc EXCEPT ![r].fails = @ \cup {"llm"},
                                  ![r].calls = Append(@, Called("llm", FALSE))]
            /\ pc' = [pc EXCEPT ![r] = "done"]
            /\ resp' = [resp EXCEPT ![r] = ErrorResponse(500)]
       ELSE /\ loc' = loc
            /\ pc' = [pc EXCEPT ![r] = "done"]
            /\ resp' = [resp EXCEPT ![r] = ErrorResponse(400)]
    /\ UNCHANGED <<tables, now, req, issued>>

\* store_cache_entry: the embedding, then the insert.  It re-raises what it
\* catches, and chat_completions turns that into a 500.
StoreEntry(r, F) ==
    /\ pc[r] = "store"
    /\ MayRun(r)
    /\ \E embed_ok \in F, db_ok \in F :
          LET row == NewCacheEntry(req[r].owner, loc[r].query_hash, loc[r].query_text,
                                   loc[r].content, req[r].model, loc[r].tokens, loc[r].cost)
          IN IF ~embed_ok
             THEN /\ loc' = [loc EXCEPT ![r].fails = @ \cup {"embed_store"},
                                        ![r].calls = Append(@, Called("store", FALSE))]
                  /\ cache_entries' = cache_entries
                  /\ pc' = [pc EXCEPT ![r] = "done"]
                  /\ resp' = [resp EXCEPT ![r] = ErrorResponse(500)]
             ELSE IF ~db_ok \/ ~InsertAllowed(row)
             THEN /\ loc' = [loc EXCEPT ![r].fails = @ \cup {"insert"},
                                        ![r].calls = Append(@, Called("store", FALSE))]
                  /\ cache_entries' = cache_entries
                  /\ pc' = [pc EXCEPT ![r] = "done"]
                  /\ resp' = [resp EXCEPT ![r] = ErrorResponse(500)]
             ELSE /\ cache_entries' = Append(cache_entries, row)
                  /\ loc' = [loc EXCEPT ![r].match = 0,
                                        ![r].calls = Append(@, Called("store", FALSE))]
                  /\ pc' = [pc EXCEPT ![r] = "log"]
                  /\ resp' = resp
    /\ UNCHANGED <<usage_logs, accounts, now, req, issued>>

(***************************************************************************)
(* Subscriptions (app/services/subscription_service.py).                   *)
(***************************************************************************)
\* monthly_requests of a plan without a monthly limit (None).
NoLimit == -1

\* monthly_requests of the free plan.
FreeMonthlyRequests == 1000

\* monthly_requests of the startup plan, a paid plan with a limit.
StartupMonthlyRequests == 10000

\* The rows of table subscription_plans that the model uses, by name.
subscription_plans ==
    [free |-> [name |-> "free", monthly_requests |-> FreeMonthlyRequests],
     startup |-> [name |-> "startup", monthly_requests |-> StartupMonthlyRequests],
     enterprise |-> [name |-> "enterprise", monthly_requests |-> NoLimit]]

\* datetime.now().strftime("%Y-%m"), for a clock in minutes and 30-day months.
current_month(t) == t \div (30 * 24 * 60)

\* assign_free_plan is reached when the owner has no subscription or the
\* database fails; its lookup of an existing subscription is a single() that
\* raises for an owner without one, and the handler of that exception returns
\* the minimal free plan without inserting anything.
assign_free_plan(user_id) ==
    [status |-> "active",
     subscription_plans |-> [name |-> "free", monthly_requests |-> FreeMonthlyRequests]]

\* d.get(key, default) of a dict d.
Get(d, key, default) == IF key \in DOMAIN d THEN d[key] ELSE default

\* The row of a plan as get_user_subscription selects it: its name, its
\* monthly_requests where the model gives one, and its capability columns.
PlanRow(n) ==
    (IF n \in DOMAIN subscription_plans THEN subscription_plans[n] ELSE [name |-> n])
    @@ [advanced_analytics |-> plan_flags[n].advanced_analytics,
        features |-> plan_flags[n].features]

get_user_subscription(user_id, ok) ==
    IF ok /\ user_subscriptions[user_id] # "none"
    THEN [status |-> "active",
          subscription_plans |-> PlanRow(user_subscriptions[user_id])]
    ELSE assign_free_plan(user_id)

UsageRows(user_id, month_year) ==
    {i \in DOMAIN monthly_usage :
        /\ monthly_usage[i].user_id = user_id
        /\ monthly_usage[i].month_year = month_year}

Max(a, b) == IF a >= b THEN a ELSE b

\* check_usage_limits: the dict it returns.  single() raises unless exactly
\* one row matches, and every exception gives the default answer.
check_usage_limits(user_id, ok) ==
    LET plan == get_user_subscription(user_id, ok).subscription_plans
        rows == UsageRows(user_id, current_month(now))
        monthly_limit == plan.monthly_requests
    IN IF ~ok \/ Cardinality(rows) # 1
       THEN [within_limits |-> TRUE, current_usage |-> 0,
             monthly_limit |-> 1000, overage |-> 0, plan_name |-> "free"]
       ELSE LET current_usage == monthly_usage[CHOOSE i \in rows : TRUE].requests_used
            IN [within_limits |-> monthly_limit = NoLimit \/ current_usage < monthly_limit,
                current_usage |-> current_usage,
                monthly_limit |-> monthly_limit,
                overage |-> IF monthly_limit \in {NoLimit, 0} THEN 0
                            ELSE Max(0, current_usage - monthly_limit),
                plan_name |-> plan.name]

\* The update of increment_usage: the row with the id of the row read gets
\* requests_used and one of the two counters computed from the row read; the
\* update names no other column.
IncrementUpdate(table, i, existing, requests_count, cache_hit) ==
    [table EXCEPT
       ![i].requests_used = existing.requests_used + requests_count,
       ![i].cache_hits = IF cache_hit THEN existing.cache_hits + 1 ELSE @,
       ![i].cache_misses = IF cache_hit THEN @ ELSE existing.cache_misses + 1]

\* increment_usage: the table after the call.  The read is a single(), so
\* the update happens only when the owner has exactly one row for the month;
\* every exception is printed and swallowed.
increment_usage(user_id, requests_count, cache_hit, ok) ==
    LET rows == UsageRows(user_id, current_month(now))
    IN IF ~ok \/ Cardinality(rows) # 1
       THEN monthly_usage
       ELSE LET i == CHOOSE j \in rows : TRUE
            IN IncrementUpdate(monthly_usage, i, monthly_usage[i],
                               requests_count, cache_hit)

\* increment_usage called by itself, in two steps: the read of the owner's
\* row of the month, then the update.  A single() that raises, for no row as
\* for a failing database, ends the call in the except clause.
IncrementRead(r, limit, insts, F) ==
    /\ pc[r] \in {"idle", "done"}
    /\ issued < limit
    /\ \E o \in Owners, hit \in BOOLEAN, i \in insts, ok \in F :
          LET rows == UsageRows(o, current_month(now))
              found == ok /\ Cardinality(rows) = 1
              id == IF found THEN CHOOSE j \in rows : TRUE ELSE 0
          IN /\ req' = [req EXCEPT ![r] =
                          [kind |-> "increment", owner |-> o, cache_hit |-> hit,
                           inst |-> i, messages |-> <<>>, model |-> <<>>]]
             /\ loc' = [loc EXCEPT ![r] =
                          [NoLoc EXCEPT !.user_id = o,
                                        !.match = id,
                                        !.existing = IF found THEN monthly_usage[id]
                                                     ELSE <<>>,
                                        !.fails = IF ok THEN {} ELSE {"db"}]]
             /\ pc' = [pc EXCEPT ![r] = IF found THEN "update" ELSE "done"]
    /\ resp' = [resp EXCEPT ![r] = NoResp]
    /\ issued' = issued + 1
    /\ UNCHANGED <<tables, now>>

IncrementWrite(r, F) ==
    /\ pc[r] = "update"
    /\ req[r].kind = "increment"
    /\ \E ok \in F :
          /\ monthly_usage' =
                IF ok THEN IncrementUpdate(monthly_usage, loc[r].match, loc[r].existing,
                                           1, req[r].cache_hit)
                ELSE monthly_usage
          /\ loc' = [loc EXCEPT ![r].fails = Fail(r, "db", ok)]
    /\ pc' = [pc EXCEPT ![r] = "done"]
    /\ UNCHANGED <<cache_entries, usage_logs, request_counts, user_subscriptions, plan_flags, user_features, refresh_tokens,
                   forwarded, now, req, resp, issued>>

\* The features has_feature answers from a boolean column of the plan, and
\* the column of each.
BuiltinColumns ==
    [custom_similarity |-> "similarity_threshold_custom",
     advanced_analytics |-> "advanced_analytics",
     priority_support |-> "priority_support",
     sso |-> "sso_integration",
     white_label |-> "white_label",
     ab_testing |-> "ab_testing",
     webhooks |-> "webhooks"]

UserFeatureRows(user_id, feature_name) ==
    {x \in user_features : x.user_id = user_id /\ x.feature_name = feature_name}

\* has_feature answering from the plan alone.
has_feature_PlanOnly(user_id, feature_name, ok_sub, ok_feat) ==
    LET plan == Get(get_user_subscription(user_id, ok_sub), "subscription_plans", <<>>)
        plan_features == Get(plan, "features", <<>>)
    IN IF feature_name \in DOMAIN BuiltinColumns
       THEN Get(plan, BuiltinColumns[feature_name], FALSE)
       ELSE IF feature_name \in DOMAIN plan_features
       THEN plan_features[feature_name] # FALSE
       ELSE FALSE

\* has_feature: a built-in feature is the plan's column, false when the plan
\* read has no such column; any other feature is the plan's features JSON
\* when it names the feature, else the owner's row of user_features, read
\* with single().  Every exception answers False.  ok_sub: the read of the
\* subscription succeeds; ok_feat: the read of user_features succeeds.
has_feature(user_id, feature_name, ok_sub, ok_feat) ==
    LET plan == Get(get_user_subscription(user_id, ok_sub), "subscription_plans", <<>>)
        plan_features == Get(plan, "features", <<>>)
        rows == UserFeatureRows(user_id, feature_name)
    IN IF feature_name \in DOMAIN BuiltinColumns
       THEN Get(plan, BuiltinColumns[feature_name], FALSE)
       ELSE IF feature_name \in DOMAIN plan_features
       THEN plan_features[feature_name] # FALSE
       ELSE IF ~ok_feat \/ Cardinality(rows) # 1
       THEN FALSE
       ELSE \A x \in rows : x.enabled

\* The methods class SubscriptionService defines.
SubscriptionServiceMethods ==
    {"get_user_subscription", "assign_free_plan", "check_usage_limits",
     "increment_usage", "can_create_api_key", "has_feature", "upgrade_plan",
     "get_usage_history"}

\* The parameters increment_usage accepts.
IncrementUsageParams == {"user_id", "requests_count", "cache_hit"}

(***************************************************************************)
(* The admission middleware classes (app/middleware/usage_middleware.py),  *)
(* each taken alone in front of a downstream application.  A path is the   *)
(* sequence of its segments.                                               *)
(***************************************************************************)
ChatPath == <<"api", "v1", "chat", "completions">>
LoginPath == <<"api", "auth", "login">>
HealthPath == <<"health">>
Paths == {ChatPath, LoginPath, HealthPath}
Methods == {"POST", "OPTIONS"}

\* The excluded paths among Paths.
UsageExcludedPaths == {HealthPath, LoginPath}
RateExcludedPaths == {HealthPath, LoginPath}

\* path.startswith("/api/")
IsApiPath(path) == Len(path) >= 2 /\ path[1] = "api"

\* The statuses the downstream application answers with.
DownstreamStatus == {200, 500}

\* forwarded after the middleware passed request r on: counted for the
\* identity the middleware resolved and the minute the request arrived in.
Forward(r) == [forwarded EXCEPT ![<<loc[r].user_id, loc[r].minute>>] = @ + 1]

\* "can_proceed, limit_message = value" iterates the value, which must yield
\* exactly two items; a dict yields its keys.
UnpacksIntoTwo(value) == Cardinality(DOMAIN value) = 2

\* can_proceed after the unpacking: the dict's first key when the dict has
\* two.  The keys are non-empty strings, which are true in a condition.
CanProceed(value) == \A k \in DOMAIN value : k # ""

UsageDenied ==
    [NoResp EXCEPT !.status = 429, !.code = "USAGE_LIMIT_EXCEEDED"]

\* UsageTrackingMiddleware.dispatch up to its call of call_next: the skips,
\* _get_user_info, check_usage_limits and the unpacking of its result.  An
\* exception inside the try block sends the request to the call_next of the
\* except clause.
UsageDispatch(r, limit, insts, F) ==
    /\ pc[r] \in {"idle", "done"}
    /\ issued < limit
    /\ \E o \in Owners \cup {"None"}, p \in Paths, m \in Methods,
          i \in insts, ok \in F :
          LET skip == p \in UsageExcludedPaths \/ ~IsApiPath(p) \/ m = "OPTIONS"
              checked == ~skip /\ o # "None"
              limits == IF checked THEN check_usage_limits(o, ok) ELSE <<>>
              raised == checked /\ ~UnpacksIntoTwo(limits)
              denied == checked /\ ~raised /\ ~CanProceed(limits)
          IN /\ req' = [req EXCEPT ![r] =
                          [kind |-> "usage", owner |-> o, path |-> p, method |-> m,
                           inst |-> i, messages |-> <<>>, model |-> <<>>]]
             /\ loc' = [loc EXCEPT ![r] =
                          [NoLoc EXCEPT !.user_id = IF skip THEN "None" ELSE o,
                                        !.minute = now,
                                        !.limits = limits,
                                        !.route = IF skip THEN "skip"
                                                  ELSE IF raised THEN "except"
                                                  ELSE "try"]]
             /\ pc' = [pc EXCEPT ![r] = IF denied THEN "done" ELSE "call_next"]
             /\ resp' = [resp EXCEPT ![r] = IF denied THEN UsageDenied ELSE NoResp]
    /\ issued' = issued + 1
    /\ UNCHANGED <<tables, now>>

\* The keyword arguments _track_usage passes to increment_usage.
TrackUsageKwargs(is_cache_hit) ==
    IF is_cache_hit THEN {"user_id", "is_cache_hit", "tokens_saved", "cost_saved"}
    ELSE {"user_id", "is_cache_hit"}

\* _track_usage: monthly_usage after it.  A call with a keyword the callee
\* does not accept raises TypeError, which _track_usage logs and swallows.
track_usage(user_id, is_cache_hit, ok) ==
    IF TrackUsageKwargs(is_cache_hit) \subseteq IncrementUsageParams
    THEN increment_usage(user_id, 1, is_cache_hit, ok)
    ELSE monthly_usage

\* call_next of UsageTrackingMiddleware and what follows it.  In the try
\* block the headers X-Tokens-Saved and X-Cost-Saved of the response are
\* converted with int() and float(), the usage of an identified owner is
\* tracked and the response returned; an exception of the downstream
\* application, or of a conversion, is caught there and the request is
\* passed on a second time.  Outside the try block the exception propagates
\* and the server answers 500.  parses: the two headers are absent or numbers.
UsageCallNext(r, F) ==
    /\ pc[r] = "call_next"
    /\ req[r].kind = "usage"
    /\ forwarded' = Forward(r)
    /\ \E ok \in F, parses \in F, st \in DownstreamStatus, hit \in BOOLEAN :
          LET response == [NoResp EXCEPT !.status = st, !.cached = hit]
          IN IF ok /\ loc[r].route = "try" /\ ~parses
             THEN /\ loc' = [loc EXCEPT ![r].forwards = @ + 1,
                                        ![r].route = "except",
                                        ![r].fails = @ \cup {"headers"}]
                  /\ pc' = pc
                  /\ resp' = [resp EXCEPT ![r] = NoResp]
                  /\ monthly_usage' = monthly_usage
             ELSE IF ok
             THEN /\ loc' = [loc EXCEPT ![r].forwards = @ + 1]
                  /\ pc' = [pc EXCEPT ![r] = "done"]
                  /\ resp' = [resp EXCEPT ![r] = response]
                  /\ monthly_usage' =
                        IF loc[r].route = "try" /\ loc[r].user_id # "None"
                        THEN track_usage(loc[r].user_id, hit, ok)
                        ELSE monthly_usage
             ELSE /\ loc' = [loc EXCEPT ![r].forwards = @ + 1,
                                        ![r].route = IF @ = "try" THEN "except" ELSE @,
                                        ![r].fails = @ \cup {"downstream"}]
                  /\ pc' = [pc EXCEPT ![r] = IF loc[r].route = "try" THEN "call_next"
                                             ELSE "done"]
                  /\ resp' = [resp EXCEPT ![r] = IF loc[r].route = "try" THEN NoResp
                                                 ELSE ErrorResponse(500)]
                  /\ monthly_usage' = monthly_usage
    /\ UNCHANGED <<cache_entries, usage_logs, request_counts, user_subscriptions, plan_flags, user_features, refresh_tokens,
                   now, req, issued>>

\* RateLimitMiddleware.rate_limits: requests per minute by plan, -1 unlimited.
rate_limits == [free |-> 10, startup |-> 100, business |-> 500, enterprise |-> -1]

\* The limit of a plan that rate_limits does not name.
DefaultRateLimit == 10

\* request_counts without the entries older than the minute before this one.
Pruned(counts, current_minute) ==
    [k \in {j \in DOMAIN counts : j[2] >= current_minute - 1} |-> counts[k]]

\* _check_rate_limit with the subscription found: the counting code runs.
check_rate_limit_Counting(i, user_id) ==
    LET counts == request_counts[i]
        allow == [can_proceed |-> TRUE, counts |-> counts]
        plan_name == user_subscriptions[user_id]
        rate_limit == IF plan_name \in DOMAIN rate_limits
                      THEN rate_limits[plan_name] ELSE DefaultRateLimit
        key == <<user_id, now>>
        current_count == IF key \in DOMAIN counts THEN counts[key] ELSE 0
    IN IF rate_limit = -1
       THEN allow
       ELSE IF current_count >= rate_limit
       THEN [can_proceed |-> FALSE, counts |-> counts]
       ELSE [can_proceed |-> TRUE,
             counts |-> Pruned((key :> current_count + 1) @@ counts, now)]

\* _check_rate_limit with an except clause that denies the request.
check_rate_limit_DenyOnError(i, user_id) ==
    [can_proceed |-> "get_subscription_details" \in SubscriptionServiceMethods,
     counts |-> request_counts[i]]

\* _check_rate_limit: whether the request may proceed, and request_counts
\* after the call.  Its first statement calls get_subscription_details; the
\* call of a method the service does not define raises AttributeError, and
\* every exception allows the request.
check_rate_limit(i, user_id) ==
    LET counts == request_counts[i]
        allow == [can_proceed |-> TRUE, counts |-> counts]
    IN IF "get_subscription_details" \notin SubscriptionServiceMethods
       THEN allow
       ELSE IF user_subscriptions[user_id] = "none"
       THEN allow
       ELSE LET plan_name == user_subscriptions[user_id]
                rate_limit == IF plan_name \in DOMAIN rate_limits
                              THEN rate_limits[plan_name] ELSE DefaultRateLimit
                key == <<user_id, now>>
                current_count == IF key \in DOMAIN counts THEN counts[key] ELSE 0
            IN IF rate_limit = -1
               THEN allow
               ELSE IF current_count >= rate_limit
               THEN [can_proceed |-> FALSE, counts |-> counts]
               ELSE [can_proceed |-> TRUE,
                     counts |-> Pruned((key :> current_count + 1) @@ counts, now)]

\* The answer to a request over the rate limit.
RetryAfter == 60

RateDenied ==
    [NoResp EXCEPT !.status = 429, !.code = "RATE_LIMIT_EXCEEDED",
                   !.retry_after = RetryAfter]

\* RateLimitMiddleware.dispatch up to its call of call_next.
RateDispatch(r, limit, insts) ==
    /\ pc[r] \in {"idle", "done"}
    /\ issued < limit
    /\ \E o \in Owners \cup {"None"}, p \in Paths, i \in insts :
          LET skip == p \in RateExcludedPaths \/ ~IsApiPath(p)
              checked == ~skip /\ o # "None"
              limited == IF checked THEN check_rate_limit(i, o)
                         ELSE [can_proceed |-> TRUE, counts |-> request_counts[i]]
              denied == ~limited.can_proceed
          IN /\ req' = [req EXCEPT ![r] =
                          [kind |-> "rate", owner |-> o, path |-> p, method |-> "POST",
                           inst |-> i, messages |-> <<>>, model |-> <<>>]]
             /\ loc' = [loc EXCEPT ![r] =
                          [NoLoc EXCEPT !.user_id = IF skip THEN "None" ELSE o,
                                        !.minute = now,
                                        !.route = IF skip THEN "skip" ELSE "try"]]
             /\ request_counts' = [request_counts EXCEPT ![i] = limited.counts]
             /\ pc' = [pc EXCEPT ![r] = IF denied THEN "done" ELSE "call_next"]
             /\ resp' = [resp EXCEPT ![r] = IF denied THEN RateDenied ELSE NoResp]
    /\ issued' = issued + 1
    /\ UNCHANGED <<cache_entries, usage_logs, monthly_usage, user_subscriptions, plan_flags, user_features, refresh_tokens,
                   forwarded, now>>

\* call_next of RateLimitMiddleware: inside the try block, so that an
\* exception of the downstream application passes the request on again from
\* the except clause.
RateCallNext(r, F) ==
    /\ pc[r] = "call_next"
    /\ req[r].kind = "rate"
    /\ forwarded' = Forward(r)
    /\ \E ok \in F, st \in DownstreamStatus :
          IF ok
          THEN /\ loc' = [loc EXCEPT ![r].forwards = @ + 1]
               /\ pc' = [pc EXCEPT ![r] = "done"]
               /\ resp' = [resp EXCEPT ![r] = [NoResp EXCEPT !.status = st]]
          ELSE /\ loc' = [loc EXCEPT ![r].forwards = @ + 1,
                                     ![r].route = IF @ = "try" THEN "except" ELSE @,
                                     ![r].fails = @ \cup {"downstream"}]
               /\ pc' = [pc EXCEPT ![r] = IF loc[r].route = "try" THEN "call_next"
                                          ELSE "done"]
               /\ resp' = [resp EXCEPT ![r] = IF loc[r].route = "try" THEN NoResp
                                              ELSE ErrorResponse(500)]
    /\ UNCHANGED <<cache_entries, usage_logs, monthly_usage, request_counts,
                   user_subscriptions, plan_flags, user_features, refresh_tokens, now, req, issued>>

\* FeatureGateMiddleware.feature_requirements, in the order of the dict.
AnalyticsPath == <<"api", "analytics", "advanced">>
AnalyticsExportPath == <<"api", "analytics", "advanced", "export">>
CustomModelsPath == <<"api", "models", "custom">>

feature_requirements ==
    << <<AnalyticsPath, "advanced_analytics">>,
       <<CustomModelsPath, "custom_models">>,
       << <<"api", "teams">>, "team_collaboration" >>,
       << <<"api", "cache", "advanced">>, "advanced_caching" >> >>

\* The feature of the first pattern the path starts with, "None" without one.
RequiredFeature(path) ==
    LET hits == {k \in DOMAIN feature_requirements :
                    StartsWith(path, feature_requirements[k][1])}
    IN IF hits = {} THEN "None"
       ELSE feature_requirements[CHOOSE k \in hits : \A j \in hits : k <= j][2]

\* The paths of the requests sent to FeatureGateMiddleware.
GatePaths == {ChatPath, AnalyticsPath, AnalyticsExportPath, CustomModelsPath}

FeatureDenied ==
    [NoResp EXCEPT !.status = 403, !.code = "FEATURE_NOT_AVAILABLE"]

\* The reads a call of has_feature makes, out of which those that failed.
FeatureFails(feature_name, user_id, ok_sub, ok_feat) ==
    (IF ok_sub THEN {} ELSE {"subscription"})
    \cup (IF /\ ~ok_feat
              /\ feature_name \notin DOMAIN BuiltinColumns
              /\ feature_name \notin
                    DOMAIN Get(Get(get_user_subscription(user_id, ok_sub),
                                   "subscription_plans", <<>>), "features", <<>>)
           THEN {"user_features"} ELSE {})

\* FeatureGateMiddleware.dispatch up to its call of call_next: a path that
\* requires no feature is passed on; a request without identity is answered
\* 401; an owner for whom has_feature is false is answered 403.
FeatureDispatch(r, limit, insts, F) ==
    /\ pc[r] \in {"idle", "done"}
    /\ issued < limit
    /\ \E o \in Owners \cup {"None"}, p \in GatePaths, i \in insts,
          ok_sub \in F, ok_feat \in F :
          LET required == RequiredFeature(p)
              skip == required = "None"
              checked == ~skip /\ o # "None"
              granted == checked /\ has_feature(o, required, ok_sub, ok_feat)
          IN /\ req' = [req EXCEPT ![r] =
                          [kind |-> "feature", owner |-> o, path |-> p, method |-> "POST",
                           inst |-> i, messages |-> <<>>, model |-> <<>>]]
             /\ loc' = [loc EXCEPT ![r] =
                          [NoLoc EXCEPT !.user_id = IF skip THEN "None" ELSE o,
                                        !.minute = now,
                                        !.required = required,
                                        !.fails = IF checked
                                                  THEN FeatureFails(required, o, ok_sub, ok_feat)
                                                  ELSE {},
                                        !.route = IF skip THEN "skip" ELSE "try"]]
             /\ pc' = [pc EXCEPT ![r] = IF skip \/ granted THEN "call_next" ELSE "done"]
             /\ resp' = [resp EXCEPT ![r] =
                           IF skip \/ granted THEN NoResp
                           ELSE IF o = "None" THEN ErrorResponse(401)
                           ELSE FeatureDenied]
    /\ issued' = issued + 1
    /\ UNCHANGED <<tables, now>>

\* call_next of FeatureGateMiddleware: outside the try block for a path that
\* requires no feature, inside it otherwise, so that an exception of the
\* downstream application passes the request on again from the except clause.
FeatureCallNext(r, F) ==
    /\ pc[r] = "call_next"
    /\ req[r].kind = "feature"
    /\ forwarded' = Forward(r)
    /\ \E ok \in F, st \in DownstreamStatus :
          IF ok
          THEN /\ loc' = [loc EXCEPT ![r].forwards = @ + 1]
               /\ pc' = [pc EXCEPT ![r] = "done"]
               /\ resp' = [resp EXCEPT ![r] = [NoResp EXCEPT !.status = st]]
          ELSE /\ loc' = [loc EXCEPT ![r].forwards = @ + 1,
                                     ![r].route = IF @ = "try" THEN "except" ELSE @,
                                     ![r].fails = @ \cup {"downstream"}]
               /\ pc' = [pc EXCEPT ![r] = IF loc[r].route = "try" THEN "call_next"
                                          ELSE "done"]
               /\ resp' = [resp EXCEPT ![r] = IF loc[r].route = "try" THEN NoResp
                                              ELSE ErrorResponse(500)]
    /\ UNCHANGED <<cache_entries, usage_logs, monthly_usage, request_counts,
                   user_subscriptions, plan_flags, user_features, refresh_tokens, now, req, issued>>

(***************************************************************************)
(* The decorators of app/utils/feature_gates.py around a function that     *)
(* answers 200.                                                            *)
(***************************************************************************)
FeatureNames == {"advanced_analytics", "custom_models"}

\* requires_feature(feature_name): 401 without a user, 403 when has_feature
\* is false, else the wrapped function.
RequiresFeature(r, limit, insts, F) ==
    /\ pc[r] \in {"idle", "done"}
    /\ issued < limit
    /\ \E o \in Owners \cup {"None"}, f \in FeatureNames, i \in insts,
          ok_sub \in F, ok_feat \in F :
          LET has_access == o # "None" /\ has_feature(o, f, ok_sub, ok_feat)
          IN /\ req' = [req EXCEPT ![r] =
                          [kind |-> "requires_feature", owner |-> o, inst |-> i,
                           messages |-> <<>>, model |-> <<>>]]
             /\ loc' = [loc EXCEPT ![r] =
                          [NoLoc EXCEPT !.user_id = o,
                                        !.required = f,
                                        !.fails = IF o = "None" THEN {}
                                                  ELSE FeatureFails(f, o, ok_sub, ok_feat)]]
             /\ resp' = [resp EXCEPT ![r] =
                           IF o = "None" THEN ErrorResponse(401)
                           ELSE IF ~has_access THEN ErrorResponse(403)
                           ELSE ErrorResponse(200)]
    /\ pc' = [pc EXCEPT ![r] = "done"]
    /\ issued' = issued + 1
    /\ UNCHANGED <<tables, now>>

\* plan_hierarchy of requires_plan.
plan_hierarchy == [free |-> 0, startup |-> 1, business |-> 2, enterprise |-> 3]

\* The rank of a min_plan that plan_hierarchy does not name.
UnknownMinRank == 999

\* The plans a decorator is written with: those of plan_hierarchy and one
\* that it does not name.
MinPlans == {"free", "startup", "business", "enterprise", "platinum"}

\* user_plan of requires_plan: the name of the plan get_user_subscription
\* returned, "free" without one.
UserPlan(user_id, ok) ==
    Get(Get(get_user_subscription(user_id, ok), "subscription_plans", <<>>),
        "name", "free")

\* PlanTooLow with an unknown min_plan ranked like an unknown user plan.
PlanTooLow_UnknownLowest(user_plan, min_plan) ==
    Get(plan_hierarchy, user_plan, 0) < Get(plan_hierarchy, min_plan, 0)

\* The check of requires_plan: true when the call is refused.
PlanTooLow(user_plan, min_plan) ==
    Get(plan_hierarchy, user_plan, 0) < Get(plan_hierarchy, min_plan, UnknownMinRank)

\* requires_plan(min_plan): 401 without a user, 403 when the rank of the
\* user's plan is below that of min_plan, else the wrapped function.
RequiresPlan(r, limit, insts, F) ==
    /\ pc[r] \in {"idle", "done"}
    /\ issued < limit
    /\ \E o \in Owners \cup {"None"}, min_plan \in MinPlans, i \in insts, ok \in F :
          LET user_plan == IF o = "None" THEN "None" ELSE UserPlan(o, ok)
          IN /\ req' = [req EXCEPT ![r] =
                          [kind |-> "requires_plan", owner |-> o, min_plan |-> min_plan,
                           inst |-> i, messages |-> <<>>, model |-> <<>>]]
             /\ loc' = [loc EXCEPT ![r] =
                          [NoLoc EXCEPT !.user_id = o,
                                        !.user_plan = user_plan,
                                        !.fails = IF o = "None" \/ ok THEN {}
                                                  ELSE {"subscription"}]]
             /\ resp' = [resp EXCEPT ![r] =
                           IF o = "None" THEN ErrorResponse(401)
                           ELSE IF PlanTooLow(user_plan, min_plan) THEN ErrorResponse(403)
                           ELSE ErrorResponse(200)]
    /\ pc' = [pc EXCEPT ![r] = "done"]
    /\ issued' = issued + 1
    /\ UNCHANGED <<tables, now>>

\* A minute passes.
Tick ==
    /\ now < MaxTime
    /\ now' = now + 1
    /\ UNCHANGED <<tables, pc, req, loc, resp, issued>>

(***************************************************************************)
(* Specifications.                                                         *)
(*   Spec     concurrent requests on several instances, collaborators work *)
(*   SpecSeq  one request at a time, every collaborator call may fail      *)
(***************************************************************************)
Works == {TRUE}
MayFail == {TRUE, FALSE}

Next ==
    \E r \in Slots :
        \/ Issue(r, MaxIssued, Instances)
        \/ ExactLookup(r, Works)
        \/ SemanticLookup(r, Works)
        \/ HitRead(r, Works)
        \/ HitWrite(r, Works)
        \/ LogUsage(r, Works)
        \/ CallLLM(r, Works)
        \/ StoreEntry(r, Works)

Spec == Init /\ [][Next]_vars

\* One task slot on one instance: the requests follow one another.
NextSeq ==
    \/ Issue(1, MaxIssued, {1})
    \/ ExactLookup(1, MayFail)
    \/ SemanticLookup(1, MayFail)
    \/ HitRead(1, MayFail)
    \/ HitWrite(1, MayFail)
    \/ LogUsage(1, MayFail)
    \/ CallLLM(1, MayFail)
    \/ StoreEntry(1, MayFail)

SpecSeq == Init /\ [][NextSeq]_vars


(***************************************************************************)
(* SpecStats: the stats endpoint, called for either owner while one task   *)
(* of chat_completions after the other fills the usage log.                *)
(***************************************************************************)
RECURSIVE Gcd(_, _)
Gcd(a, b) == IF b = 0 THEN a ELSE Gcd(b, a % b)

\* The quotient n / d of Python, kept as the fraction in lowest terms; the
\* number 0 is <<0, 1>>.
Quotient(n, d) == <<n \div Gcd(n, d), d \div Gcd(n, d)>>

RECURSIVE Sum(_, _)
Sum(rows, column) ==
    IF rows = <<>> THEN 0 ELSE rows[1][column] + Sum(Tail(rows), column)

IsOf(user_id, log) == log.user_id = user_id
IsHit(log) == log.cache_hit

\* get_cache_stats with the select of usage_logs not restricted to the owner.
get_cache_stats_AllOwners(user_id) ==
    LET logs == usage_logs
        hits == SelectSeq(logs, IsHit)
        total_requests == Len(logs)
        cache_hits == Len(hits)
    IN [total_requests |-> total_requests,
        cache_hits |-> cache_hits,
        cache_hit_rate |-> IF total_requests > 0
                           THEN Quotient(cache_hits, total_requests) ELSE <<0, 1>>,
        total_cost_saved |-> Sum(hits, "cost"),
        total_tokens_saved |-> Sum(hits, "tokens_used")]

\* get_cache_stats adding up cost and tokens_used of every entry of the owner.
get_cache_stats_SumsAll(user_id) ==
    LET logs == SelectSeq(usage_logs, LAMBDA log : IsOf(user_id, log))
        hits == SelectSeq(logs, IsHit)
        total_requests == Len(logs)
        cache_hits == Len(hits)
    IN [total_requests |-> total_requests,
        cache_hits |-> cache_hits,
        cache_hit_rate |-> IF total_requests > 0
                           THEN Quotient(cache_hits, total_requests) ELSE <<0, 1>>,
        total_cost_saved |-> Sum(logs, "cost"),
        total_tokens_saved |-> Sum(logs, "tokens_used")]

\* get_cache_stats: the body it returns when its select of usage_logs succeeds.
get_cache_stats(user_id) ==
    LET logs == SelectSeq(usage_logs, LAMBDA log : IsOf(user_id, log))
        hits == SelectSeq(logs, IsHit)
        total_requests == Len(logs)
        cache_hits == Len(hits)
    IN [total_requests |-> total_requests,
        cache_hits |-> cache_hits,
        cache_hit_rate |-> IF total_requests > 0
                           THEN Quotient(cache_hits, total_requests) ELSE <<0, 1>>,
        total_cost_saved |-> Sum(hits, "cost"),
        total_tokens_saved |-> Sum(hits, "tokens_used")]

\* GET /v1/cache/stats for an owner: one read of usage_logs and the
\* aggregation, with no await between them; a failing read is answered 500.
GetCacheStats(r, insts, F) ==
    /\ pc[r] \in {"idle", "done"}
    /\ \E o \in Owners, i \in insts, ok \in F :
          /\ \A s \in Slots \ {r} : req[s].inst = i => pc[s] \notin InHandler
          /\ req' = [req EXCEPT ![r] = [NoReq EXCEPT !.kind = "stats", !.owner = o,
                                                     !.inst = i]]
          /\ resp' = [resp EXCEPT ![r] =
                        IF ok THEN [NoResp EXCEPT !.status = 200,
                                                  !.stats = get_cache_stats(o)]
                        ELSE ErrorResponse(500)]
    /\ loc' = [loc EXCEPT ![r] = NoLoc]
    /\ pc' = [pc EXCEPT ![r] = "done"]
    /\ UNCHANGED <<tables, now, issued>>

NextStats ==
    \/ Issue(1, MaxIssued, {1})
    \/ ExactLookup(1, Works)
    \/ SemanticLookup(1, Works)
    \/ HitRead(1, Works)
    \/ HitWrite(1, Works)
    \/ LogUsage(1, Works)
    \/ CallLLM(1, Works)
    \/ StoreEntry(1, Works)
    \/ GetCacheStats(2, Instances, MayFail)

SpecStats == Init /\ [][NextStats]_vars


(***************************************************************************)
(* SpecHash: generate_query_hash applied to the bodies of two requests,    *)
(* drawn from message lists of one or two messages, whose keys come in     *)
(* either order, every model and several settings of the other fields of   *)
(* ChatCompletionRequest.                                                  *)
(***************************************************************************)
MsgASwapped == << <<"content", "a">>, <<"role", "user">> >>

HashMessages == {MsgA, MsgASwapped, MsgB}

HashMessageLists ==
    { <<m>> : m \in HashMessages } \cup { <<m, n>> : m \in HashMessages, n \in HashMessages }

\* max_tokens (-1: None), temperature (in tenths) and stream of a request
\* body.
RequestOptions ==
    { [max_tokens |-> -1, temperature |-> 10, stream |-> FALSE],
      [max_tokens |-> 50, temperature |-> 0, stream |-> FALSE],
      [max_tokens |-> -1, temperature |-> 10, stream |-> TRUE] }

\* The relation is one between two requests: the first two slots hold them.
HashPair == {r \in Slots : r <= 2}

HashBodies ==
    {[kind |-> "hash", owner |-> "u1", inst |-> 1,
      messages |-> m, model |-> md, options |-> o] :
        m \in HashMessageLists, md \in Models, o \in RequestOptions}

InitHash ==
    /\ cache_entries = <<>>
    /\ usage_logs = <<>>
    /\ monthly_usage = <<>>
    /\ request_counts = [i \in Instances |-> <<>>]
    /\ user_subscriptions = [o \in Owners |-> "none"]
    /\ plan_flags = [n \in PlanNames |-> NoFlags]
    /\ user_features = {}
    /\ refresh_tokens = <<>>
    /\ forwarded = [k \in ForwardKeys |-> 0]
    /\ now = 0
    /\ pc = [r \in Slots |-> IF r \in HashPair THEN "hash" ELSE "idle"]
    /\ \E bodies \in [HashPair -> HashBodies] :
          req = [r \in Slots |-> IF r \in HashPair THEN bodies[r] ELSE NoReq]
    /\ loc = [r \in Slots |-> NoLoc]
    /\ resp = [r \in Slots |-> NoResp]
    /\ issued = 0

\* chat_completions computes query_hash from request.messages and
\* request.model.
HashRequest(r) ==
    /\ pc[r] = "hash"
    /\ loc' = [loc EXCEPT ![r].query_hash =
                   generate_query_hash(req[r].messages, req[r].model)]
    /\ pc' = [pc EXCEPT ![r] = "hashed"]
    /\ UNCHANGED <<tables, now, req, resp, issued>>

NextHash == \E r \in Slots : HashRequest(r)

SpecHash == InitHash /\ [][NextHash]_vars

(***************************************************************************)
(* SpecTtl: the requests of SpecSeq with every collaborator working, and   *)
(* days passing between their steps.                                       *)
(***************************************************************************)
DayPasses ==
    /\ now < MaxDays * TtlMinutes
    /\ now' = now + TtlMinutes
    /\ UNCHANGED <<tables, pc, req, loc, resp, issued>>

NextTtl ==
    \/ Issue(1, MaxIssued, {1})
    \/ ExactLookup(1, Works)
    \/ SemanticLookup(1, Works)
    \/ HitRead(1, Works)
    \/ HitWrite(1, Works)
    \/ LogUsage(1, Works)
    \/ CallLLM(1, Works)
    \/ StoreEntry(1, Works)
    \/ DayPasses

SpecTtl == Init /\ [][NextTtl]_vars

(***************************************************************************)
(* SpecSem: the semantic lookup over every content of cache_entries.       *)
(* The table holds up to MaxRows entries stored by earlier requests, of    *)
(* any owner and any embedding (listed by owner, then embedding), and a    *)
(* request whose exact lookup has just missed is about to run the semantic *)
(* lookup.                                                                 *)
(***************************************************************************)
RowKinds == 0..(2 * (MaxEmbed + 1) - 1)
KindOwner(k) == IF k <= MaxEmbed THEN "u1" ELSE "u2"
KindEmbedding(k) == k % (MaxEmbed + 1)

RowAnswers == <<"s1", "s2", "s3", "s4", "s5", "s6", "s7", "s8", "s9">>

StoredRow(i, k) ==
    [user_id |-> KindOwner(k),
     query_hash |-> sha256(<<"stored", i>>),
     query_text |-> <<"stored", i>>,
     query_embedding |-> KindEmbedding(k),
     response_text |-> RowAnswers[i],
     model_used |-> ModelGpt,
     tokens_saved |-> TokensOf("r1"),
     cost_saved |-> CostOf(TokensOf("r1")),
     expires_at |-> TtlMinutes,
     hit_count |-> 0]

\* The sequences of n row kinds in non-decreasing order, none smaller than
\* lo, with at most MaxSame rows of a kind; kind lo may be taken c more times.
RECURSIVE SortedKinds(_, _, _)
SortedKinds(n, lo, c) ==
    IF n = 0 THEN { <<>> }
    ELSE UNION { { <<k>> \o t :
                   t \in SortedKinds(n - 1, k, IF k = lo THEN c - 1 ELSE MaxSame - 1) } :
                 k \in {j \in RowKinds : j > lo \/ (j = lo /\ c > 0)} }

InitSem ==
    /\ \E n \in 0..MaxRows :
       \E ks \in SortedKinds(n, 0, MaxSame) :
          cache_entries = [i \in 1..n |-> StoredRow(i, ks[i])]
    /\ usage_logs = <<>>
    /\ monthly_usage = <<>>
    /\ request_counts = [i \in Instances |-> <<>>]
    /\ user_subscriptions = [o \in Owners |-> "none"]
    /\ plan_flags = [n \in PlanNames |-> NoFlags]
    /\ user_features = {}
    /\ refresh_tokens = <<>>
    /\ forwarded = [k \in ForwardKeys |-> 0]
    /\ now = 0
    /\ pc = [r \in Slots |-> IF r = 1 THEN "semantic" ELSE "idle"]
    /\ \E m \in MessageLists :
          /\ req = [r \in Slots |->
                      IF r = 1 THEN [kind |-> "chat", owner |-> "u1", messages |-> m,
                                     model |-> ModelGpt, inst |-> 1]
                      ELSE NoReq]
          /\ loc = [r \in Slots |->
                      IF r = 1 THEN [NoLoc EXCEPT
                                       !.stages = MiddlewareStack,
                                       !.query_hash = generate_query_hash(m, ModelGpt),
                                       !.query_text = QueryText(m)]
                      ELSE NoLoc]
    /\ resp = [r \in Slots |-> NoResp]
    /\ issued = 1

NextSem ==
    \/ SemanticLookup(1, Works)
    \/ HitRead(1, Works)
    \/ HitWrite(1, Works)
    \/ LogUsage(1, Works)

SpecSem == InitSem /\ [][NextSem]_vars

(***************************************************************************)
(* SpecUsage: UsageTrackingMiddleware in front of a downstream             *)
(* application, for owners of every plan whose usage of the month is       *)
(* around the quota of the free plan.                                      *)
(* SpecRate: RateLimitMiddleware in front of a downstream application,     *)
(* for an owner of the free plan and one of the enterprise plan, over two  *)
(* minutes.                                                                *)
(***************************************************************************)
UsageLevels == {0, FreeMonthlyRequests - 1, FreeMonthlyRequests, FreeMonthlyRequests + 1}

UsageRow(o, used) ==
    [user_id |-> o, month_year |-> current_month(0), requests_used |-> used,
     cache_hits |-> 0, cache_misses |-> used]

InitUnit ==
    /\ cache_entries = <<>>
    /\ usage_logs = <<>>
    /\ request_counts = [i \in Instances |-> <<>>]
    /\ forwarded = [k \in ForwardKeys |-> 0]
    /\ now = 0
    /\ pc = [r \in Slots |-> "idle"]
    /\ req = [r \in Slots |-> NoReq]
    /\ loc = [r \in Slots |-> NoLoc]
    /\ resp = [r \in Slots |-> NoResp]
    /\ issued = 0

InitUsage ==
    /\ InitUnit
    /\ \E plan \in {"none", "free", "enterprise"} :
          user_subscriptions = [o \in Owners |-> IF o = "u1" THEN plan ELSE "enterprise"]
    /\ plan_flags = [n \in PlanNames |-> NoFlags]
    /\ user_features = {}
    /\ refresh_tokens = <<>>
    /\ \E used \in [Owners -> UsageLevels \cup {-1}] :
          /\ used["u2"] \in {-1, FreeMonthlyRequests}
          /\ monthly_usage =
              (IF used["u1"] # -1 THEN <<UsageRow("u1", used["u1"])>> ELSE <<>>)
              \o (IF used["u2"] # -1 THEN <<UsageRow("u2", used["u2"])>> ELSE <<>>)

NextUsage ==
    \/ UsageDispatch(1, MaxIssued, {1}, MayFail)
    \/ UsageCallNext(1, MayFail)

SpecUsage == InitUsage /\ [][NextUsage]_vars

\* SpecIncr: increment_usage called again and again for owners with and
\* without a row of the month; u1 may hold a row of the month before.
\* SpecIncrBoth: two instances calling it at the same time.
CountLevels == {0, 1}

CountedRow(o, month, hits, misses) ==
    [user_id |-> o, month_year |-> month, requests_used |-> hits + misses,
     cache_hits |-> hits, cache_misses |-> misses]

InitIncr ==
    /\ InitUnit
    /\ user_subscriptions = [o \in Owners |-> "free"]
    /\ plan_flags = [n \in PlanNames |-> NoFlags]
    /\ user_features = {}
    /\ refresh_tokens = <<>>
    /\ \E earlier \in BOOLEAN, has \in [Owners -> BOOLEAN],
          hits \in [Owners -> CountLevels], misses \in [Owners -> CountLevels] :
          /\ \A o \in Owners : ~has[o] => hits[o] = 0 /\ misses[o] = 0
          /\ monthly_usage =
               (IF earlier THEN <<CountedRow("u1", current_month(0) - 1, 1, 1)>> ELSE <<>>)
               \o (IF has["u1"]
                   THEN <<CountedRow("u1", current_month(0), hits["u1"], misses["u1"])>>
                   ELSE <<>>)
               \o (IF has["u2"]
                   THEN <<CountedRow("u2", current_month(0), hits["u2"], misses["u2"])>>
                   ELSE <<>>)

NextIncr ==
    \/ IncrementRead(1, MaxIssued, {1}, MayFail)
    \/ IncrementWrite(1, MayFail)

SpecIncr == InitIncr /\ [][NextIncr]_vars

NextIncrBoth ==
    \E r \in Slots :
        \/ IncrementRead(r, MaxIssued, {r}, Works)
        \/ IncrementWrite(r, Works)

SpecIncrBoth == InitIncr /\ [][NextIncrBoth]_vars

InitRate ==
    /\ InitUnit
    /\ user_subscriptions = [o \in Owners |-> IF o = "u1" THEN "free" ELSE "enterprise"]
    /\ plan_flags = [n \in PlanNames |-> NoFlags]
    /\ user_features = {}
    /\ refresh_tokens = <<>>
    /\ monthly_usage = <<>>

NextRate ==
    \/ RateDispatch(1, MaxCalls, {1})
    \/ RateCallNext(1, Works)
    \/ Tick

SpecRate == InitRate /\ [][NextRate]_vars

(***************************************************************************)
(* SpecUsageBoth: the requests of owner u1 to the chat route, sent through *)
(* UsageTrackingMiddleware of one instance by all tasks at once.           *)
(***************************************************************************)
NextUsageBoth ==
    \E r \in Slots :
        \/ /\ UsageDispatch(r, MaxIssued, {1}, Works)
           /\ req'[r].owner = "u1"
           /\ req'[r].path = ChatPath
           /\ req'[r].method = "POST"
        \/ UsageCallNext(r, Works)

SpecUsageBoth == InitUsage /\ [][NextUsageBoth]_vars

(***************************************************************************)
(* SpecRateBoth: the requests of the free-plan owner to the chat route,    *)
(* sent through RateLimitMiddleware of one instance by all tasks at once,  *)
(* within one minute.                                                      *)
(***************************************************************************)
NextRateBoth ==
    \E r \in Slots :
        \/ /\ RateDispatch(r, MaxCalls, {1})
           /\ req'[r].owner = "u1"
           /\ req'[r].path = ChatPath
        \/ RateCallNext(r, Works)

SpecRateBoth == InitRate /\ [][NextRateBoth]_vars

(***************************************************************************)
(* SpecPrune: a few requests through RateLimitMiddleware, spread over the  *)
(* minutes 0..MaxMinute.                                                   *)
(***************************************************************************)
MinutePasses ==
    /\ now < MaxMinute
    /\ now' = now + 1
    /\ UNCHANGED <<tables, pc, req, loc, resp, issued>>

NextPrune ==
    \/ RateDispatch(1, MaxIssued, {1})
    \/ RateCallNext(1, Works)
    \/ MinutePasses

SpecPrune == InitRate /\ [][NextPrune]_vars

(***************************************************************************)
(* SpecStall: chat_completions with collaborators that may stall.  Every   *)
(* step of the handler is a call of a collaborator (the database, the      *)
(* embedding generator, the provider), made without a timeout argument and *)
(* outside any wait_for; a call that is answered returns, and the handler  *)
(* has no step for a call that is not.                                     *)
(***************************************************************************)
\* The collaborator of the call task r is about to make, or is in, stops
\* answering.
Stall(r) ==
    /\ req[r].kind = "chat"
    /\ pc[r] \in InHandler \cup {"exact"}
    /\ ~loc[r].stalled
    /\ loc' = [loc EXCEPT ![r].stalled = TRUE]
    /\ UNCHANGED <<tables, now, pc, req, resp, issued>>

\* The next call of the handler returns: its collaborator has not stalled.
Returns(r) ==
    /\ ~loc[r].stalled
    /\ \/ ExactLookup(r, Works)
       \/ SemanticLookup(r, Works)
       \/ HitRead(r, Works)
       \/ HitWrite(r, Works)
       \/ LogUsage(r, Works)
       \/ CallLLM(r, MayFail)
       \/ StoreEntry(r, Works)

NextStall ==
    \/ Issue(1, MaxIssued, {1})
    \/ Returns(1)
    \/ Stall(1)

\* A call whose collaborator answers does return.
SpecStall == Init /\ [][NextStall]_vars /\ WF_vars(Returns(1))

(***************************************************************************)
(* SpecQuota: check_usage_limit called for owner u1 on no plan, the free,  *)
(* the startup or the enterprise plan, with a usage row below, at or above *)
(* the limit of the plan or with none, and for u2 on the enterprise plan.  *)
(***************************************************************************)
\* check_usage_limit with the overage dict answered for every plan.
check_usage_limit_NeverBlocks(user_id, ok) ==
    LET usage_status == check_usage_limits(user_id, ok)
    IN IF ~usage_status.within_limits
       THEN [NoResp EXCEPT !.status = 200,
                           !.quota = [NoQuota EXCEPT !.allow = TRUE, !.overage = TRUE,
                                          !.overage_amount = usage_status.overage]]
       ELSE [NoResp EXCEPT !.status = 200,
                           !.quota = [NoQuota EXCEPT !.allow = TRUE]]

\* check_usage_limit: the HTTPException(429) it raises, with current_usage
\* and limit in its detail, or the dict it returns.
check_usage_limit(user_id, ok) ==
    LET usage_status == check_usage_limits(user_id, ok)
    IN IF ~usage_status.within_limits
       THEN IF usage_status.plan_name = "free"
            THEN [NoResp EXCEPT !.status = 429,
                                !.quota = [NoQuota EXCEPT
                                             !.current_usage = usage_status.current_usage,
                                             !.limit = usage_status.monthly_limit]]
            ELSE [NoResp EXCEPT !.status = 200,
                                !.quota = [NoQuota EXCEPT !.allow = TRUE, !.overage = TRUE,
                                               !.overage_amount = usage_status.overage]]
       ELSE [NoResp EXCEPT !.status = 200,
                           !.quota = [NoQuota EXCEPT !.allow = TRUE]]

CheckUsageLimit(r, limit, F) ==
    /\ pc[r] \in {"idle", "done"}
    /\ issued < limit
    /\ \E o \in Owners, ok \in F :
          /\ req' = [req EXCEPT ![r] = [NoReq EXCEPT !.kind = "quota", !.owner = o]]
          /\ loc' = [loc EXCEPT ![r] =
                       [NoLoc EXCEPT !.user_id = o,
                                     !.limits = check_usage_limits(o, ok),
                                     !.fails = IF ok THEN {} ELSE {"db"}]]
          /\ resp' = [resp EXCEPT ![r] = check_usage_limit(o, ok)]
    /\ pc' = [pc EXCEPT ![r] = "done"]
    /\ issued' = issued + 1
    /\ UNCHANGED <<tables, now>>

\* Usage below, at and above the limit of a plan.
Around(n) == {n - 1, n, n + 1}

QuotaLevels == {0} \cup Around(FreeMonthlyRequests) \cup Around(StartupMonthlyRequests)

InitQuota ==
    /\ InitUnit
    /\ \E plan \in {"none", "free", "startup", "enterprise"} :
          user_subscriptions = [o \in Owners |-> IF o = "u1" THEN plan ELSE "enterprise"]
    /\ plan_flags = [n \in PlanNames |-> NoFlags]
    /\ user_features = {}
    /\ refresh_tokens = <<>>
    /\ \E used \in [Owners -> QuotaLevels \cup {-1}] :
          monthly_usage =
              (IF used["u1"] # -1 THEN <<UsageRow("u1", used["u1"])>> ELSE <<>>)
              \o (IF used["u2"] # -1 THEN <<UsageRow("u2", used["u2"])>> ELSE <<>>)

NextQuota == CheckUsageLimit(1, MaxIssued, MayFail)

SpecQuota == InitQuota /\ [][NextQuota]_vars

(***************************************************************************)
(* SpecAuth: requests to the chat-completions and stats routes with every  *)
(* combination of an Authorization and an X-API-Key header, through        *)
(* AuthenticationMiddleware.dispatch and then the dependency               *)
(* get_user_from_api_key of the route.                                     *)
(***************************************************************************)
CacheStatsPath == <<"api", "v1", "cache", "stats">>
AuthPaths == {ChatPath, CacheStatsPath}

\* AuthenticationMiddleware.PUBLIC_PATHS, as far as the model has the paths.
PublicPaths == {HealthPath, LoginPath}

\* The identity the route uses when it resolved none.
TestUser == "00000000-0000-0000-0000-000000000000"

\* Table api_keys: the active key of u1 and a revoked key of u2.
api_keys ==
    {[api_key |-> "k1", user_id |-> "u1", is_active |-> TRUE],
     [api_key |-> "k2", user_id |-> "u2", is_active |-> FALSE]}

\* The strings a client sends as a credential: the two keys of the table, a
\* key the table does not hold, a JWT signed for u1, and a JWT that does not
\* verify.
Credentials == {"k1", "k2", "kx", "jwt1", "jwtx"}

\* jwt.decode(token, ...).get("sub"), "None" when the token does not verify.
JwtSub(token) == IF token = "jwt1" THEN "u1" ELSE "None"

\* The Authorization header: absent, or a scheme and a credential.
AuthHeaders == {<<>>} \cup ({"Bearer", "Basic"} \X Credentials)

\* The rows select("user_id").eq("api_key", k).eq("is_active", True) matches.
ActiveKeyRows(k) == {x \in api_keys : x.api_key = k /\ x.is_active}

\* _validate_api_key: single() raises unless exactly one row matches, and
\* every exception returns None.
validate_api_key(k, db_ok) ==
    IF db_ok /\ Cardinality(ActiveKeyRows(k)) = 1
    THEN (CHOOSE x \in ActiveKeyRows(k) : TRUE).user_id
    ELSE "None"

\* authorization.replace("Bearer ", ""): the credential of a Bearer header;
\* a header of another scheme stays whole and is no credential of the table.
BearerStripped(authorization) ==
    IF authorization[1] = "Bearer" THEN authorization[2] ELSE "other"

\* get_user_from_api_key of the router: the test identity without a header;
\* else the user of the active key, read with single(), whose exception for
\* no row, like every other exception, is answered with the test identity.
get_user_from_api_key(authorization, db_ok) ==
    IF authorization = <<>> THEN TestUser
    ELSE LET rows == ActiveKeyRows(BearerStripped(authorization))
         IN IF db_ok /\ Cardinality(rows) = 1
            THEN (CHOOSE x \in rows : TRUE).user_id
            ELSE TestUser

\* AuthenticationMiddleware.dispatch: "pass" with the user it put in
\* request.state, or "raise" for the HTTPException(401) it raises.
authenticate(path, authorization, x_api_key, db_ok) ==
    LET pass(u) == [outcome |-> "pass", user_id |-> u]
        raise == [outcome |-> "raise", user_id |-> "None"]
    IN IF path \in PublicPaths THEN pass("None")
       ELSE IF authorization = <<>>
       THEN IF x_api_key # "None"
            THEN IF validate_api_key(x_api_key, db_ok) # "None"
                 THEN pass(validate_api_key(x_api_key, db_ok))
                 ELSE raise
            ELSE IF IsApiPath(path) THEN raise ELSE pass("None")
       ELSE IF authorization[1] = "Bearer"
       THEN IF JwtSub(authorization[2]) # "None"
            THEN pass(JwtSub(authorization[2]))
            ELSE raise
       ELSE raise

\* An HTTPException raised inside a BaseHTTPMiddleware is outside the
\* exception handlers of the application, which wrap the router only: the
\* server error middleware answers it.
UnhandledInMiddleware == ErrorResponse(500)

\* A request arrives and goes through AuthenticationMiddleware.dispatch.
AuthDispatch(r, limit, F) ==
    /\ pc[r] \in {"idle", "done"}
    /\ issued < limit
    /\ \E p \in AuthPaths, a \in AuthHeaders, k \in Credentials \cup {"None"}, ok \in F :
          LET result == authenticate(p, a, k, ok)
          IN /\ req' = [req EXCEPT ![r] =
                          [kind |-> "auth", owner |-> "u1", path |-> p,
                           authorization |-> a, x_api_key |-> k, inst |-> 1,
                           messages |-> <<>>, model |-> <<>>]]
             /\ loc' = [loc EXCEPT ![r] =
                          [NoLoc EXCEPT !.fails = IF ok THEN {} ELSE {"db"},
                                        !.route = "middleware"]]
             /\ pc' = [pc EXCEPT ![r] = IF result.outcome = "pass" THEN "depends"
                                        ELSE "done"]
             /\ resp' = [resp EXCEPT ![r] = IF result.outcome = "pass" THEN NoResp
                                            ELSE UnhandledInMiddleware]
    /\ issued' = issued + 1
    /\ UNCHANGED <<tables, now>>

\* The route resolves its user_id parameter and its handler is entered with it.
ResolveUser(r, F) ==
    /\ pc[r] = "depends"
    /\ req[r].kind = "auth"
    /\ \E ok \in F :
          LET user == get_user_from_api_key(req[r].authorization, ok)
          IN /\ loc' = [loc EXCEPT ![r].user_id = IF user = "401" THEN "None" ELSE user,
                                   ![r].route = IF user = "401" THEN @ ELSE "handler",
                                   ![r].fails = Fail(r, "db", ok)]
             /\ resp' = [resp EXCEPT ![r] = IF user = "401" THEN ErrorResponse(401)
                                            ELSE NoResp]
    /\ pc' = [pc EXCEPT ![r] = "done"]
    /\ UNCHANGED <<tables, now, req, issued>>

NextAuth ==
    \/ AuthDispatch(1, MaxIssued, MayFail)
    \/ ResolveUser(1, MayFail)

SpecAuth == InitRate /\ [][NextAuth]_vars

(***************************************************************************)
(* SpecRefresh: POST /refresh and AuthService.refresh_access_token         *)
(* (app/routers/auth.py, app/services/auth_service.py), called with        *)
(* refresh tokens over a table refresh_tokens that may hold rows for two   *)
(* of them.  Tokens are <<"token", n>>; the clock stands at 0.             *)
(***************************************************************************)
\* The tokens a client presents: two that may have a row, one that has none.
PresentedTokens == { <<"token", n>> : n \in 1..3 }

\* create_refresh_token: secrets.token_urlsafe(32), a token not made before;
\* n counts the tokens made.
create_refresh_token(n) == <<"token", 3 + n>>

\* AuthService.refresh_token_expire_days
refresh_token_expire_days == 30

\* Table user_profiles: every owner has a row.
user_profiles == Owners

\* The attributes of SupabaseClient (app/database/supabase_client.py): the
\* wrapper holds the client and has one method.
SupabaseClientAttributes == {"client", "test_connection"}

\* self.supabase.table(...) in AuthService: self.supabase is the wrapper, and
\* Python raises AttributeError for an attribute the object does not have.
HasTable == "table" \in SupabaseClientAttributes

\* The rows the select of verify_refresh_token matches: those of the token's
\* hash, hashlib.sha256(token.encode()).hexdigest(), that are active.
ActiveRows(token) ==
    {i \in DOMAIN refresh_tokens :
        refresh_tokens[i].token_hash = sha256(token) /\ refresh_tokens[i].is_active}

\* verify_refresh_token: the user_id of the one active row of the token's
\* hash, when it has not expired; "None" when there is no such row, when the
\* row has expired (it is then revoked) and when anything raises.
verify_refresh_token(token) ==
    IF ~HasTable THEN [user_id |-> "None", revokes |-> FALSE]
    ELSE IF Cardinality(ActiveRows(token)) # 1 THEN [user_id |-> "None", revokes |-> FALSE]
    ELSE LET row == refresh_tokens[CHOOSE i \in ActiveRows(token) : TRUE]
         IN IF row.expires_at < now THEN [user_id |-> "None", revokes |-> TRUE]
            ELSE [user_id |-> row.user_id, revokes |-> FALSE]

\* revoke_refresh_token: is_active = False on the rows of the token's hash;
\* an exception is logged and the table left as it is.
revoke_refresh_token(token) ==
    IF ~HasTable THEN refresh_tokens
    ELSE [i \in DOMAIN refresh_tokens |->
            IF refresh_tokens[i].token_hash = sha256(token)
            THEN [refresh_tokens[i] EXCEPT !.is_active = FALSE]
            ELSE refresh_tokens[i]]

\* store_refresh_token: one active row for the token's hash; an exception is
\* logged and the table left as it is.
store_refresh_token(user_id, token) ==
    IF ~HasTable THEN refresh_tokens
    ELSE Append(refresh_tokens,
                [user_id |-> user_id, token_hash |-> sha256(token),
                 expires_at |-> now + refresh_token_expire_days, is_active |-> TRUE])

\* A client posts a refresh token to /refresh.  was_active remembers whether
\* the token has one active row that has not expired when it is presented.
RefreshDispatch(r, limit) ==
    /\ pc[r] \in {"idle", "done"}
    /\ issued < limit
    /\ \E t \in PresentedTokens :
          /\ req' = [req EXCEPT ![r] =
                       [kind |-> "refresh", owner |-> "u1", refresh_token |-> t,
                        inst |-> 1, messages |-> <<>>, model |-> <<>>]]
          /\ loc' = [loc EXCEPT ![r] =
                       [NoLoc EXCEPT !.was_active =
                           \E i \in ActiveRows(t) :
                               /\ ActiveRows(t) = {i}
                               /\ refresh_tokens[i].expires_at >= now]]
    /\ pc' = [pc EXCEPT ![r] = "verify"]
    /\ resp' = [resp EXCEPT ![r] = NoResp]
    /\ issued' = issued + 1
    /\ UNCHANGED <<tables, now>>

\* refresh_access_token, one database call at a time: verify_refresh_token,
\* the select of the profile, revoke_refresh_token, store_refresh_token.  The
\* route answers 401 when it returns None, 500 when it raises, and the new
\* tokens otherwise.
RefreshStep(r) ==
    /\ req[r].kind = "refresh"
    /\ pc[r] \in {"verify", "profile", "revoke", "store"}
    /\ IF pc[r] = "verify"
       THEN LET v == verify_refresh_token(req[r].refresh_token)
            IN /\ refresh_tokens' = IF v.revokes
                                    THEN revoke_refresh_token(req[r].refresh_token)
                                    ELSE refresh_tokens
               /\ loc' = [loc EXCEPT ![r].user_id = v.user_id]
               /\ pc' = [pc EXCEPT ![r] = IF v.user_id = "None" THEN "done"
                                          ELSE "profile"]
               /\ resp' = [resp EXCEPT ![r] = IF v.user_id = "None"
                                              THEN ErrorResponse(401) ELSE NoResp]
       ELSE IF pc[r] = "profile"
       THEN LET found == HasTable /\ loc[r].user_id \in user_profiles
            IN /\ refresh_tokens' = refresh_tokens
               /\ loc' = [loc EXCEPT ![r].new_refresh_token =
                                        IF found THEN create_refresh_token(issued)
                                        ELSE @]
               /\ pc' = [pc EXCEPT ![r] = IF found THEN "revoke" ELSE "done"]
               /\ resp' = [resp EXCEPT ![r] = IF found THEN NoResp
                                              ELSE ErrorResponse(500)]
       ELSE IF pc[r] = "revoke"
       THEN /\ refresh_tokens' = revoke_refresh_token(req[r].refresh_token)
            /\ loc' = loc
            /\ pc' = [pc EXCEPT ![r] = "store"]
            /\ resp' = resp
       ELSE /\ refresh_tokens' =
                  store_refresh_token(loc[r].user_id, loc[r].new_refresh_token)
            /\ loc' = loc
            /\ pc' = [pc EXCEPT ![r] = "done"]
            /\ resp' = [resp EXCEPT ![r] =
                          [NoResp EXCEPT !.status = 200,
                                         !.refresh_token = loc[r].new_refresh_token]]
    /\ UNCHANGED <<cache_entries, usage_logs, monthly_usage, request_counts,
                   user_subscriptions, plan_flags, user_features, forwarded, now,
                   req, issued>>

\* The rows the table may hold for a token of owner u1 when the calls begin:
\* none, an active one, a revoked one, an active one that has expired.
TokenRowsOf(n) ==
    { <<>> } \cup
    { << [user_id |-> "u1", token_hash |-> sha256(<<"token", n>>),
          expires_at |-> e, is_active |-> a] >> :
        e \in {now - 1, now + refresh_token_expire_days}, a \in BOOLEAN }

InitRefresh ==
    /\ InitUnit
    /\ user_subscriptions = [o \in Owners |-> "none"]
    /\ plan_flags = [n \in PlanNames |-> NoFlags]
    /\ user_features = {}
    /\ monthly_usage = <<>>
    /\ \E a \in TokenRowsOf(1), b \in TokenRowsOf(2) : refresh_tokens = a \o b

NextRefresh ==
    \E r \in Slots :
        \/ RefreshDispatch(r, MaxIssued)
        \/ RefreshStep(r)

SpecRefresh == InitRefresh /\ [][NextRefresh]_vars

(***************************************************************************)
(* SpecFeature: FeatureGateMiddleware in front of a downstream             *)
(* application, and the decorators requires_feature and requires_plan, for *)
(* an owner u1 of any plan or of none, with any capability columns in the  *)
(* plans and any row of user_features for u1; u2 is on the enterprise plan.*)
(***************************************************************************)
JsonFeatures == {<<>>, [custom_models |-> TRUE], [custom_models |-> FALSE]}

PlanFlags == [advanced_analytics : BOOLEAN, features : JsonFeatures]

UserFeatureTables ==
    {{}} \cup {{[user_id |-> "u1", feature_name |-> "custom_models", enabled |-> e]} :
                 e \in BOOLEAN}

InitFeature ==
    /\ InitUnit
    /\ monthly_usage = <<>>
    /\ \E plan \in PlanNames \cup {"none"} :
          user_subscriptions = [o \in Owners |-> IF o = "u1" THEN plan ELSE "enterprise"]
    /\ \E low \in PlanFlags, high \in PlanFlags :
          plan_flags = [n \in PlanNames |->
                          IF n \in {"business", "enterprise"} THEN high ELSE low]
    /\ user_features \in UserFeatureTables
    /\ refresh_tokens = <<>>

NextFeature ==
    \/ FeatureDispatch(1, MaxGate, {1}, MayFail)
    \/ FeatureCallNext(1, MayFail)
    \/ RequiresFeature(1, MaxGate, {1}, MayFail)
    \/ RequiresPlan(1, MaxGate, {1}, MayFail)

SpecFeature == InitFeature /\ [][NextFeature]_vars

(***************************************************************************)
(* Properties.                                                             *)
(***************************************************************************)
Chat(r) == req[r].kind = "chat"
Done(r) == Chat(r) /\ pc[r] = "done"
IsGpt(r) == StartsWith(req[r].model, <<"g", "p", "t">>)

\* C1: when the owner already holds an entry for (messages, model) - stored by
\* an earlier request that missed - a later identical request of that owner,
\* run after the earlier one completed and with every collaborator working,
\* returns cached = true, cache_type = "exact" and the stored response text,
\* and the entry's hit_count is one more than when the request arrived.
C1_RepeatIsExactHit ==
    \A r \in Slots :
        (Done(r) /\ loc[r].pre_id # 0 /\ loc[r].fails = {}) =>
            /\ resp[r].status = 200
            /\ resp[r].cached
            /\ resp[r].cache_type = "exact"
            /\ resp[r].content = cache_entries[loc[r].pre_id].response_text
            /\ cache_entries[loc[r].pre_id].hit_count = loc[r].pre_hits + 1

C1_Witness ==
    \E r \in Slots :
        /\ Done(r) /\ loc[r].pre_id # 0 /\ loc[r].fails = {}
        /\ resp[r].cache_type = "exact"
        /\ cache_entries[loc[r].pre_id].hit_count = 2

\* C5: right after store_cache_entry has stored an entry, get_exact_match of
\* the same hash and owner returns an entry whose response_text and model_used
\* are the stored response and model.
JustStored(r) == Chat(r) /\ pc[r] = "log" /\ loc[r].cache_type = "None"

C5_StoreLookupRoundTrip ==
    \A r \in Slots :
        JustStored(r) =>
            LET e == get_exact_match(loc[r].query_hash, req[r].owner, TRUE)
            IN /\ e # 0
               /\ cache_entries[e].response_text = loc[r].content
               /\ cache_entries[e].model_used = req[r].model

C5_Witness ==
    \E r \in Slots :
        /\ JustStored(r)
        /\ \E i \in DOMAIN cache_entries :
              /\ cache_entries[i].query_hash = loc[r].query_hash
              /\ cache_entries[i].user_id # req[r].owner

\* C6: no update of hit_count is lost: the hit_count of an entry counts every
\* hit whose update_hit_count has completed.
HitsCompleted(i) ==
    {r \in Slots : Chat(r) /\ pc[r] \in {"log", "done"} /\ loc[r].match = i}

C6_NoLostHit ==
    \A i \in DOMAIN cache_entries :
        cache_entries[i].hit_count >= Cardinality(HitsCompleted(i))

\* C7: a chat-completions request reaches the handler only after the quota,
\* rate-limit and feature stages, in that order.
IsSubsequence(s, t) ==
    \E f \in [1..Len(s) -> 1..Len(t)] :
        /\ \A i \in 1..Len(s) : t[f[i]] = s[i]
        /\ \A i, j \in 1..Len(s) : i < j => f[i] < f[j]

InHandlerOrDone(r) == Chat(r) /\ pc[r] \in InHandler \cup {"exact", "done"}

C7_AdmissionBeforeHandler ==
    \A r \in Slots :
        InHandlerOrDone(r) => IsSubsequence(AdmissionStages, loc[r].stages)

\* C8: a failure of update_hit_count or of log_usage changes neither the
\* status nor the body of the response: a request whose only failures are of
\* these gets the answer of the entry it matched, or of the upstream.
AccountingFailures == {"hit_count", "log"}

C8_AccountingFailureSwallowed ==
    \A r \in Slots :
        (Done(r) /\ loc[r].fails # {} /\ loc[r].fails \subseteq AccountingFailures) =>
            /\ resp[r].status = 200
            /\ resp[r].cached = (loc[r].match # 0)
            /\ resp[r].content = IF loc[r].match # 0
                                 THEN cache_entries[loc[r].match].response_text
                                 ELSE loc[r].content
            /\ resp[r].usage = IF loc[r].match # 0 THEN -1 ELSE loc[r].tokens

C8_Witness ==
    \E r \in Slots :
        /\ Done(r)
        /\ loc[r].fails = AccountingFailures
        /\ resp[r].status = 200

\* C9: when the insert of the new cache entry fails after the upstream has
\* answered, the caller still gets the upstream response (cached = false,
\* with its usage).
C9_StoreFailureStillAnswers ==
    \A r \in Slots :
        (Done(r) /\ "insert" \in loc[r].fails) =>
            /\ resp[r].status = 200
            /\ ~resp[r].cached
            /\ resp[r].content = loc[r].content
            /\ resp[r].usage = loc[r].tokens

\* C10: an embedding failure never fails the request: a request for a
\* supported model whose only failures are embedding failures is answered
\* with status 200.
EmbeddingFailures == {"embed_lookup", "embed_store"}

C10_EmbeddingFailureNeverFails ==
    \A r \in Slots :
        (Done(r) /\ IsGpt(r) /\ loc[r].fails # {}
                 /\ loc[r].fails \subseteq EmbeddingFailures) =>
            resp[r].status = 200


\* C2: the semantic lookup returns no candidate whose similarity is below
\* the threshold of 85 percent and at most 5 candidates, all of the owner;
\* the first has the greatest similarity of those returned, and
\* chat_completions serves that first candidate and reports its similarity.
SemanticHit(r) ==
    Chat(r) /\ loc[r].cache_type = "semantic"
            /\ pc[r] \in {"hit_read", "hit_write", "log", "done"}

RowSimilarity(r, id) ==
    Similarity(cache_entries[id].query_embedding, Embed(loc[r].query_text))

C2_SemanticLookupRanked ==
    \A r \in Slots :
        SemanticHit(r) =>
            LET ms == loc[r].semantic_matches
            IN /\ Len(ms) >= 1 /\ Len(ms) <= 5
               /\ \A k \in 1..Len(ms) :
                     /\ RowSimilarity(r, ms[k].id) >= 85
                     /\ ms[k].similarity = RowSimilarity(r, ms[k].id)
                     /\ cache_entries[ms[k].id].user_id = req[r].owner
                     /\ ms[1].similarity >= ms[k].similarity
               /\ loc[r].match = ms[1].id
               /\ pc[r] = "done" =>
                     /\ resp[r].cached /\ resp[r].cache_type = "semantic"
                     /\ resp[r].content = cache_entries[ms[1].id].response_text
                     /\ resp[r].similarity = ms[1].similarity

\* More than five of the owner's entries reach the threshold, one of the
\* owner's entries is below it, and the five returned differ in similarity.
C2_Witness ==
    \E r \in Slots :
        /\ SemanticHit(r) /\ pc[r] = "done"
        /\ Len(loc[r].semantic_matches) = 5
        /\ loc[r].semantic_matches[1].similarity > loc[r].semantic_matches[5].similarity
        /\ Cardinality({i \in DOMAIN cache_entries :
                          /\ cache_entries[i].user_id = req[r].owner
                          /\ RowSimilarity(r, i) >= 85}) > 5
        /\ \E i \in DOMAIN cache_entries :
              /\ cache_entries[i].user_id = req[r].owner
              /\ RowSimilarity(r, i) < 85


\* C3: a request of an identified owner whose requests of the month have
\* reached the finite quota of the plan is answered 429 and is not passed
\* on; a request below the quota, or of a plan without a quota, is never
\* answered with the quota denial.
QuotaReached(r) ==
    /\ req[r].kind = "usage"
    /\ loc[r].user_id # "None"
    /\ loc[r].limits.monthly_limit # NoLimit
    /\ loc[r].limits.current_usage >= loc[r].limits.monthly_limit

C3_QuotaEnforced ==
    \A r \in Slots :
        /\ QuotaReached(r) =>
              /\ loc[r].forwards = 0
              /\ pc[r] = "done" => resp[r].status = 429
        /\ (req[r].kind = "usage" /\ ~QuotaReached(r)) =>
              resp[r].code # "USAGE_LIMIT_EXCEEDED"

\* C4: of the requests an owner sends in one minute, RateLimitMiddleware
\* passes on no more than the per-minute cap of the owner's plan: the request
\* after the cap is reached is not passed on.
RateCap(o) ==
    IF user_subscriptions[o] \in DOMAIN rate_limits
    THEN rate_limits[user_subscriptions[o]] ELSE DefaultRateLimit

C4_RateCapEnforced ==
    \A o \in Owners : \A m \in 0..MaxTime :
        RateCap(o) # -1 => forwarded[<<o, m>>] <= RateCap(o)

\* C11: a request is never answered from a cache entry of another owner,
\* neither by the exact nor by the semantic lookup, and the entry whose
\* hit_count its hit updates is its own owner's.
C11_OwnerIsolation ==
    \A r \in Slots :
        (Chat(r) /\ loc[r].match # 0) =>
            /\ cache_entries[loc[r].match].user_id = req[r].owner
            /\ (pc[r] = "done" /\ resp[r].cached) =>
                  resp[r].content = cache_entries[loc[r].match].response_text

\* A request is served from its owner's entry while another owner holds an
\* entry of the same hash.
C11_Witness ==
    \E r \in Slots :
        /\ Done(r) /\ resp[r].cached /\ loc[r].match # 0
        /\ \E i \in DOMAIN cache_entries :
              /\ cache_entries[i].user_id # req[r].owner
              /\ cache_entries[i].query_hash = loc[r].query_hash

Incremented(r) ==
    req[r].kind = "increment" /\ pc[r] = "done" /\ "db" \notin loc[r].fails

\* C13: after a call of increment_usage with the database working, the owner
\* has one row for the current month, created by the call if there was none,
\* whose request count is one more than before (1 for a new row) and of whose
\* cache_hits and cache_misses exactly the one the call names is one more than
\* before; and in every row requests_used = cache_hits + cache_misses.
C13_IncrementCreatesOrUpdates ==
    /\ \A r \in Slots :
          Incremented(r) =>
             LET rows == UsageRows(req[r].owner, current_month(now))
                 had == loc[r].match # 0
                 hits == IF had THEN loc[r].existing.cache_hits ELSE 0
                 misses == IF had THEN loc[r].existing.cache_misses ELSE 0
                 used == IF had THEN loc[r].existing.requests_used ELSE 0
             IN /\ Cardinality(rows) = 1
                /\ \A i \in rows :
                      /\ monthly_usage[i].requests_used = used + 1
                      /\ monthly_usage[i].cache_hits =
                            hits + (IF req[r].cache_hit THEN 1 ELSE 0)
                      /\ monthly_usage[i].cache_misses =
                            misses + (IF req[r].cache_hit THEN 0 ELSE 1)
    /\ \A i \in DOMAIN monthly_usage :
          monthly_usage[i].requests_used =
             monthly_usage[i].cache_hits + monthly_usage[i].cache_misses

\* C15: an owner whose usage event of the month has completed, alone or
\* together with another one, has exactly one row for the month.
C15_FirstEventCreatesTheRow ==
    \A r \in Slots :
        Incremented(r) =>
            Cardinality(UsageRows(req[r].owner, current_month(now))) = 1

\* C14: the step in which UsageTrackingMiddleware returns the downstream
\* response of a request it identified the owner of adds one to the
\* requests_used of the owner's row of the month, and one to cache_hits for a
\* cached response and to cache_misses otherwise; the step that denies a
\* request with 429 leaves monthly_usage as it is.
C14_AdmittedRequestIsCounted ==
    [][\A r \in Slots :
          /\ (/\ req'[r].kind = "usage" /\ pc[r] = "call_next" /\ pc'[r] = "done"
              /\ loc[r].user_id # "None"
              /\ resp'[r].status = 200) =>
                \A i \in UsageRows(loc[r].user_id, current_month(now)) :
                   /\ monthly_usage'[i].requests_used = monthly_usage[i].requests_used + 1
                   /\ monthly_usage'[i].cache_hits =
                         monthly_usage[i].cache_hits + (IF resp'[r].cached THEN 1 ELSE 0)
                   /\ monthly_usage'[i].cache_misses =
                         monthly_usage[i].cache_misses + (IF resp'[r].cached THEN 0 ELSE 1)
          /\ (req'[r].kind = "usage" /\ pc'[r] = "done" /\ resp'[r].status = 429) =>
                monthly_usage' = monthly_usage]_vars

\* The step in which request r is answered from the cache or by the provider.
Completes(r) ==
    /\ req'[r].kind = "chat" /\ pc[r] # "done" /\ pc'[r] = "done"
    /\ resp'[r].status = 200

\* The rows of usage_logs stay as they are, and n rows are added.
Appends(n) ==
    /\ Len(usage_logs') = Len(usage_logs) + n
    /\ \A i \in DOMAIN usage_logs : usage_logs'[i] = usage_logs[i]

LastLogIsOf(r) ==
    /\ usage_logs'[Len(usage_logs')].user_id = req'[r].owner
    /\ usage_logs'[Len(usage_logs')].cache_hit = resp'[r].cached

\* C16 as stated: every step keeps the rows of usage_logs; the step that
\* completes a chat-completions request appends exactly one row, of the
\* request's owner and with its cache-hit flag; no other step appends.
C16_EveryCompletedRequestLogged ==
    [][/\ \E n \in {0, 1} : Appends(n)
       /\ \A r \in Slots : Completes(r) => Appends(1) /\ LastLogIsOf(r)
       /\ Appends(1) => \E r \in Slots : Completes(r)]_vars

\* C16 amended: every step keeps the rows of usage_logs; the step that
\* completes a chat-completions request appends exactly one row, of the
\* request's owner and with its cache-hit flag, when the insert of log_usage
\* succeeds, and none when it fails; no other step appends.
C16_CompletedRequestLoggedUnlessInsertFails ==
    [][/\ \E n \in {0, 1} : Appends(n)
       /\ \A r \in Slots :
             Completes(r) =>
                IF "log" \in loc'[r].fails THEN Appends(0)
                ELSE Appends(1) /\ LastLogIsOf(r)
       /\ Appends(1) => \E r \in Slots : Completes(r)]_vars

\* A miss and then a hit have completed and each has left its row, in order;
\* a third request completed while the insert of its row failed.
C16_Witness ==
    \E r \in Slots :
        /\ Done(r) /\ resp[r].status = 200 /\ "log" \in loc[r].fails
        /\ Len(usage_logs) = 2
        /\ ~usage_logs[1].cache_hit /\ usage_logs[2].cache_hit

\* A request or call that a feature or plan check has answered for an owner.
Gated(r) ==
    /\ req[r].kind \in {"feature", "requires_feature", "requires_plan"}
    /\ pc[r] = "done" /\ loc[r].user_id # "None"

ReadFailed(r) == loc[r].fails \cap {"subscription", "user_features"} # {}

\* C17: a request during whose feature or plan check the owner's subscription
\* or feature state could not be read is not denied: it is answered neither
\* 403 nor 429.
C17_ReadFailureAdmits ==
    \A r \in Slots :
        (Gated(r) /\ ReadFailed(r)) => resp[r].status \notin {403, 429}

FeatureChecked(r) ==
    /\ req[r].kind \in {"feature", "requires_feature"}
    /\ loc[r].required # "None" /\ loc[r].user_id # "None"
    /\ pc[r] = "done" \/ (pc[r] = "call_next" /\ loc[r].route = "try")

\* The plan stored for owner o has capability f: its column for a built-in
\* feature, its features JSON otherwise.
PlanHas(o, f) ==
    /\ user_subscriptions[o] # "none"
    /\ IF f \in DOMAIN BuiltinColumns
       THEN plan_flags[user_subscriptions[o]][BuiltinColumns[f]]
       ELSE Get(plan_flags[user_subscriptions[o]].features, f, FALSE)

FeatureRefused(r) == pc[r] = "done" /\ resp[r].status = 403

Entitled(r) ==
    LET o == loc[r].user_id
        f == loc[r].required
        readable == "subscription" \notin loc[r].fails /\ user_subscriptions[o] # "none"
        flags == IF readable THEN plan_flags[user_subscriptions[o]] ELSE <<>>
        json == Get(flags, "features", <<>>)
    IN IF f \in DOMAIN BuiltinColumns THEN Get(flags, BuiltinColumns[f], FALSE)
       ELSE IF f \in DOMAIN json THEN json[f]
       ELSE /\ "user_features" \notin loc[r].fails
            /\ \E x \in user_features :
                  x.user_id = o /\ x.feature_name = f /\ x.enabled

RankOf(plan) ==
    CASE plan = "startup" -> 1
      [] plan = "business" -> 2
      [] plan = "enterprise" -> 3
      [] OTHER -> 0

\* C19: a call through requires_plan(min_plan) by an identified owner is let
\* through if and only if min_plan is one of the four plans and the rank of
\* the owner's plan is at least that of min_plan, and is answered 403
\* otherwise; the owner's plan is the one the subscription read returned.
C19_AdmitsIffRankSuffices ==
    \A r \in Slots :
        (Gated(r) /\ req[r].kind = "requires_plan") =>
            /\ resp[r].status \in {200, 403}
            /\ resp[r].status = 200 <=>
                  /\ req[r].min_plan \in {"free", "startup", "business", "enterprise"}
                  /\ RankOf(loc[r].user_plan) >= RankOf(req[r].min_plan)
            /\ (user_subscriptions[loc[r].user_id] # "none" /\ ~ReadFailed(r)) =>
                  loc[r].user_plan = user_subscriptions[loc[r].user_id]

\* An owner whose plan the order does not name is let through by
\* requires_plan("free").
C19_Witness ==
    \E r \in Slots :
        /\ Gated(r) /\ req[r].kind = "requires_plan"
        /\ user_subscriptions[loc[r].user_id] = "legacy" /\ ~ReadFailed(r)
        /\ req[r].min_plan = "free"
        /\ resp[r].status = 200

IsClaude(r) == StartsWith(req[r].model, <<"c", "l", "a", "u", "d", "e">>)

\* C20: with every collaborator working, a request that missed the cache and
\* whose entry the table accepted is answered, for a model of the gpt or of
\* the claude family, with the content the provider returned and its token
\* usage; for any other model it is answered 400 without a call of a
\* provider, and no cache entry and no usage log carries such a model.
C20_RoutesByModelPrefix ==
    /\ \A r \in Slots :
          (Done(r) /\ ~resp[r].cached /\ "insert" \notin loc[r].fails) =>
             IF IsGpt(r) \/ IsClaude(r)
             THEN /\ resp[r].status = 200
                  /\ resp[r].content \in Answers
                  /\ resp[r].usage = TokensOf(resp[r].content)
             ELSE /\ resp[r].status = 400
                  /\ loc[r].content = "None"
    /\ \A i \in DOMAIN cache_entries :
          \/ StartsWith(cache_entries[i].model_used, <<"g", "p", "t">>)
          \/ StartsWith(cache_entries[i].model_used, <<"c", "l", "a", "u", "d", "e">>)
    /\ \A i \in DOMAIN usage_logs :
          \/ StartsWith(usage_logs[i].model_used, <<"g", "p", "t">>)
          \/ StartsWith(usage_logs[i].model_used, <<"c", "l", "a", "u", "d", "e">>)

\* C21: a request whose provider call failed is answered with a gateway
\* status that tells a timeout (504) from an authorization failure (503)
\* from any other failure (502).
C21_UpstreamFailureIsGatewayStatus ==
    \A r \in Slots :
        (Done(r) /\ IsGpt(r) /\ "llm" \in loc[r].fails) =>
            resp[r].status = handle_external_service_error(loc[r].error)

\* The order of the calls of chat_completions.
Pipeline == <<"exact", "semantic", "llm", "store">>

\* C22: the calls a request has made are the first ones of the order exact
\* lookup, semantic lookup, provider, store, and each was made only after
\* every lookup before it had found nothing; so a request answered from the
\* cache has called no provider, and only a request that has stored adds a
\* row to cache_entries.
C22_TwoTierOrdered ==
    [][/\ \A r \in Slots :
             req'[r].kind = "chat" =>
                LET c == loc'[r].calls
                IN /\ Len(c) <= Len(Pipeline)
                   /\ \A i \in DOMAIN c :
                         /\ c[i].op = Pipeline[i]
                         /\ i < Len(c) => ~c[i].found
                   /\ (pc'[r] = "done" /\ resp'[r].cached) =>
                         (c # <<>> /\ c[Len(c)].found)
       /\ Len(cache_entries') # Len(cache_entries) =>
             \E r \in Slots :
                /\ Len(loc[r].calls) = 3 /\ Len(loc'[r].calls) = 4
                /\ \A i \in 1..2 : ~loc[r].calls[i].found]_vars

\* A request answered by the semantic lookup, after the exact lookup found
\* nothing, while the table holds the one entry an earlier miss stored.
C22_Witness ==
    \E r \in Slots :
        /\ Done(r) /\ resp[r].cached /\ resp[r].cache_type = "semantic"
        /\ Len(loc[r].calls) = 2
        /\ Len(cache_entries) = 1

\* C23: a stored entry gets expires_at = the time of the store + 24 hours; no
\* step removes an entry or changes its expires_at; and the exact lookup
\* returns the owner's entry of the hash whenever there is one, whether or
\* not its expires_at has passed.
C23_ExactLookupIgnoresExpiry ==
    [][/\ Len(cache_entries') >= Len(cache_entries)
       /\ \A i \in DOMAIN cache_entries' :
             IF i \in DOMAIN cache_entries
             THEN /\ cache_entries'[i].expires_at = cache_entries[i].expires_at
                  /\ cache_entries'[i].query_hash = cache_entries[i].query_hash
                  /\ cache_entries'[i].user_id = cache_entries[i].user_id
             ELSE cache_entries'[i].expires_at = now + TtlMinutes
       /\ \A r \in Slots :
             (req[r].kind = "chat" /\ pc[r] = "exact" /\ pc'[r] # "exact") =>
                /\ loc'[r].match \in ExactRows(loc'[r].query_hash, req[r].owner) \cup {0}
                /\ loc'[r].match = 0 <=>
                      ExactRows(loc'[r].query_hash, req[r].owner) = {}]_vars

\* A request is answered as an exact hit from an entry whose expires_at had
\* passed when the request arrived.
C23_Witness ==
    \E r \in Slots :
        /\ Done(r) /\ resp[r].cached /\ resp[r].cache_type = "exact"
        /\ loc[r].match # 0
        /\ cache_entries[loc[r].match].expires_at < now
        /\ resp[r].content = cache_entries[loc[r].match].response_text

\* Two dicts are equal when they hold the same pairs, in whatever order.
SameDict(d, e) == {d[i] : i \in DOMAIN d} = {e[i] : i \in DOMAIN e}

SameMessages(m, n) ==
    Len(m) = Len(n) /\ \A i \in DOMAIN m : SameDict(m[i], n[i])

Hashed(r) == req[r].kind = "hash" /\ pc[r] = "hashed"

\* C24: two requests get the same key if and only if their message lists
\* hold equal messages in the same order and their models are equal; the
\* order of the keys inside a message, max_tokens, temperature and stream
\* do not matter.
C24_KeyDependsOnMessagesAndModel ==
    \A r, s \in Slots :
        (Hashed(r) /\ Hashed(s)) =>
            (loc[r].query_hash = loc[s].query_hash <=>
                /\ SameMessages(req[r].messages, req[s].messages)
                /\ req[r].model = req[s].model)

\* Two requests of two messages whose keys come in different orders and
\* whose options differ have the same key.
C24_Witness ==
    \E r, s \in Slots :
        /\ r # s /\ Hashed(r) /\ Hashed(s)
        /\ Len(req[r].messages) = 2
        /\ req[r].messages # req[s].messages
        /\ req[r].options # req[s].options
        /\ loc[r].query_hash = loc[s].query_hash

\* A lookup of the request found an entry, and no provider was called.
ServedFromCache(r) ==
    /\ \E i \in DOMAIN loc[r].calls :
          loc[r].calls[i].op \in {"exact", "semantic"} /\ loc[r].calls[i].found
    /\ \A i \in DOMAIN loc[r].calls : loc[r].calls[i].op # "llm"

FoundBy(r) == loc[r].calls[Len(loc[r].calls)].op

\* C25: every request answered 200 has cached = true iff a lookup found its
\* content in the cache; cache_type is then the lookup that found it
\* ("exact" or "semantic") and is absent otherwise; similarity is present
\* only with cache_type "semantic"; usage is present only with cached = false.
C25_WireContract ==
    \A r \in Slots :
        (Done(r) /\ resp[r].status = 200) =>
            /\ resp[r].cached <=> ServedFromCache(r)
            /\ resp[r].cached <=> resp[r].cache_type \in {"exact", "semantic"}
            /\ resp[r].cached => resp[r].cache_type = FoundBy(r)
            /\ ~resp[r].cached => resp[r].cache_type = "None"
            /\ resp[r].similarity # -1 => resp[r].cache_type = "semantic"
            /\ resp[r].usage # -1 => ~resp[r].cached

\* A semantic hit answered with its similarity and without usage.
C25_Witness ==
    \E r \in Slots :
        /\ Done(r) /\ resp[r].status = 200
        /\ ServedFromCache(r) /\ FoundBy(r) = "semantic"
        /\ resp[r].similarity # -1 /\ resp[r].usage = -1

Stats(r) == req[r].kind = "stats" /\ pc[r] = "done" /\ resp[r].status = 200

LogsOf(o) == {i \in DOMAIN usage_logs : usage_logs[i].user_id = o}
HitsOf(o) == {i \in LogsOf(o) : usage_logs[i].cache_hit}

\* C26: the body the stats endpoint returns for an owner has total_requests
\* = the number of the owner's usage-log entries, cache_hits = the number of
\* them with cache_hit = true, and cache_hit_rate = cache_hits /
\* total_requests, or 0 when the owner has none; and a step that only adds
\* entries of other owners leaves the owner's numbers as they were.
C26_StatsOfOwnerOnly ==
    [][/\ \A r \in Slots :
             (Stats(r)' /\ (req'[r] # req[r] \/ resp'[r] # resp[r])) =>
                LET st == resp'[r].stats
                    o == req'[r].owner
                IN /\ st.total_requests = Cardinality(LogsOf(o))
                   /\ st.cache_hits = Cardinality(HitsOf(o))
                   /\ st.cache_hits <= st.total_requests
                   /\ IF st.total_requests = 0
                      THEN st.cache_hit_rate = <<0, 1>>
                      ELSE /\ st.cache_hit_rate[2] > 0
                           /\ st.cache_hit_rate[1] * st.total_requests
                                = st.cache_hits * st.cache_hit_rate[2]
       /\ \A o \in Owners :
             LogsOf(o)' = LogsOf(o) =>
                LET before == get_cache_stats(o)
                    after == get_cache_stats(o)'
                IN /\ after.total_requests = before.total_requests
                   /\ after.cache_hits = before.cache_hits
                   /\ after.cache_hit_rate = before.cache_hit_rate]_vars

\* The stats of an owner with a miss and a hit, returned while the log also
\* holds an entry of the other owner.
C26_Witness ==
    \E r \in Slots :
        /\ Stats(r)
        /\ resp[r].stats.total_requests = 2
        /\ resp[r].stats.cache_hits = 1
        /\ resp[r].stats.cache_hit_rate = <<1, 2>>
        /\ Len(usage_logs) = 3

\* C27: a request of an owner whose plan has the per-minute cap -1 is never
\* answered RATE_LIMIT_EXCEEDED by the rate check, and is passed on, however
\* many requests of the owner were passed on in the same minute.
C27_UnlimitedNeverRateDenied ==
    \A r \in Slots :
        (req[r].kind = "rate" /\ req[r].owner \in Owners) =>
            (RateCap(req[r].owner) = -1 =>
                /\ resp[r].code # "RATE_LIMIT_EXCEEDED"
                /\ resp[r].status # 429
                /\ pc[r] = "done" => loc[r].forwards >= 1)

\* The enterprise owner has had MaxCalls requests, more than the cap of the
\* free plan, passed on within one minute.
C27_Witness ==
    \E o \in Owners, m \in 0..MaxTime, r \in Slots :
        /\ RateCap(o) = -1
        /\ forwarded[<<o, m>>] = MaxCalls
        /\ MaxCalls > rate_limits.free
        /\ req[r].kind = "rate" /\ req[r].owner = o /\ pc[r] = "done"

\* The next step of the handler of task s.
HandlerStep(s) ==
    \/ ExactLookup(s, Works)
    \/ SemanticLookup(s, Works)
    \/ HitRead(s, Works)
    \/ HitWrite(s, Works)
    \/ LogUsage(s, Works)
    \/ CallLLM(s, Works)
    \/ StoreEntry(s, Works)

\* The calls a task waits on: the reads of the cache store, the embedding
\* generation inside the semantic lookup, and the provider call.
SlowCalls == {"semantic", "hit_read", "llm"}

\* C28: while a task is at a slow cache read, embedding generation or
\* provider call, every other unfinished request of the same instance can
\* take its next step.
C28_OtherRequestsProgress ==
    \A r, s \in Slots :
        (/\ r # s /\ Chat(r) /\ Chat(s)
         /\ req[r].inst = req[s].inst
         /\ pc[r] \in SlowCalls
         /\ pc[s] \in InHandler \cup {"exact"}) =>
            ENABLED HandlerStep(s)

\* The task has gone through _check_rate_limit.
RateChecked(r) == req[r].kind = "rate" /\ loc[r].user_id \in Owners

RECURSIVE Total(_, _, _)
Total(table, rows, column) ==
    IF rows = {} THEN 0
    ELSE LET i == CHOOSE j \in rows : TRUE
         IN table[i][column] + Total(table, rows \ {i}, column)

UsedOf(table, o) ==
    Total(table, {i \in DOMAIN table : /\ table[i].user_id = o
                                       /\ table[i].month_year = current_month(now)},
          "requests_used")

HitsAndMissesOf(table, o) ==
    LET rows == {i \in DOMAIN table : /\ table[i].user_id = o
                                      /\ table[i].month_year = current_month(now)}
    IN Total(table, rows, "cache_hits") + Total(table, rows, "cache_misses")

\* The step in which a call of increment_usage returns, the database working.
IncrementReturns(r) ==
    /\ req'[r].kind = "increment" /\ pc'[r] = "done"
    /\ pc[r] = "update" \/ issued' # issued
    /\ "db" \notin loc'[r].fails

\* C30: every call of increment_usage that returns adds exactly one to the
\* request count of its owner's month and one to cache_hits + cache_misses,
\* whatever other calls for the same owner read or wrote between its read
\* and its write, and also when the owner had no row; so N calls add N.
C30_NoLostUpdates ==
    [][\A r \in Slots :
          IncrementReturns(r) =>
             /\ UsedOf(monthly_usage', req'[r].owner)
                   = UsedOf(monthly_usage, req'[r].owner) + 1
             /\ HitsAndMissesOf(monthly_usage', req'[r].owner)
                   = HitsAndMissesOf(monthly_usage, req'[r].owner) + 1]_vars

\* The API key a request carries: the credential of its Authorization
\* header, else its X-API-Key header; "None" for a request without either.
CarriedKey(r) ==
    IF req[r].authorization # <<>> THEN req[r].authorization[2] ELSE req[r].x_api_key

Authenticated(r) == req[r].kind = "auth" /\ pc[r] = "done"

\* C31: a request that carries a key matching no active row of api_keys is
\* answered 401 and its handler is entered under no identity; and a handler
\* is entered under the test identity only for a request without an
\* Authorization header.
C31_UnknownKeyRejected ==
    \A r \in Slots :
        (Authenticated(r) /\ "db" \notin loc[r].fails) =>
            /\ (CarriedKey(r) # "None" /\ ActiveKeyRows(CarriedKey(r)) = {}) =>
                  /\ resp[r].status = 401
                  /\ loc[r].route # "handler"
            /\ (loc[r].route = "handler" /\ loc[r].user_id = TestUser) =>
                  req[r].authorization = <<>>

\* The plan and the usage of an owner as the tables hold them.
PlanOf(o) ==
    IF user_subscriptions[o] = "none" THEN subscription_plans.free
    ELSE subscription_plans[user_subscriptions[o]]

UsedThisMonth(o) ==
    LET rows == UsageRows(o, current_month(now))
    IN IF rows = {} THEN 0 ELSE monthly_usage[CHOOSE i \in rows : TRUE].requests_used

OverQuota(o) ==
    PlanOf(o).monthly_requests # NoLimit /\ UsedThisMonth(o) >= PlanOf(o).monthly_requests

QuotaChecked(r) == req[r].kind = "quota" /\ pc[r] = "done"

\* The clauses of C32 about the answer of check_usage_limit to owner o.
QuotaAnswer(r, o) ==
    /\ resp[r].status = 429 <=> (OverQuota(o) /\ PlanOf(o).name = "free")
    /\ resp[r].status = 429 =>
          /\ resp[r].quota.current_usage = UsedThisMonth(o)
          /\ resp[r].quota.limit = PlanOf(o).monthly_requests
    /\ (OverQuota(o) /\ PlanOf(o).name # "free") =>
          /\ resp[r].status = 200 /\ resp[r].quota.allow
          /\ resp[r].quota.overage
          /\ resp[r].quota.overage_amount
                = UsedThisMonth(o) - PlanOf(o).monthly_requests
    /\ ~OverQuota(o) =>
          /\ resp[r].status = 200 /\ resp[r].quota.allow
          /\ ~resp[r].quota.overage

C33_EveryRequestCompletes ==
    \A r \in Slots :
        (req[r].kind = "chat" /\ pc[r] # "done") ~> (pc[r] = "done")

\* The requests of owner o the rate check of minute m has admitted: those
\* already passed on and those about to be.
AdmittedIn(o, m) ==
    forwarded[<<o, m>>]
    + Cardinality({r \in Slots : /\ req[r].kind = "rate" /\ pc[r] = "call_next"
                                 /\ loc[r].forwards = 0
                                 /\ loc[r].user_id = o /\ loc[r].minute = m})

\* C34: with the tasks of one instance interleaving in any order, the rate
\* check admits no more requests of an owner in one minute than the cap of
\* the owner's plan; and a check that denies leaves request_counts as it was.
C34_AtMostCapAdmitted ==
    [][/\ \A o \in Owners : \A m \in 0..LastMinute :
             RateCap(o) # -1 => AdmittedIn(o, m)' <= RateCap(o)
       /\ \A r \in Slots :
             (issued' # issued /\ req'[r].kind = "rate"
              /\ resp'[r].code = "RATE_LIMIT_EXCEEDED") =>
                request_counts' = request_counts]_vars

\* The requests of owner o that the quota check has let through and whose
\* handler has not returned yet, so that the month's usage does not count them.
InFlight(o) ==
    Cardinality({r \in Slots : /\ req[r].kind = "usage" /\ pc[r] = "call_next"
                               /\ loc[r].user_id = o})

PassedOn(o) ==
    \E m \in 0..LastMinute : forwarded'[<<o, m>>] > forwarded[<<o, m>>]

\* C35: a request of an owner on a plan with a monthly quota Q is passed on
\* to the handler only while the requests counted for the month, together
\* with the owner's other requests that were let through and are not counted
\* yet, are fewer than Q; so no more than Q requests are admitted in a month,
\* however the owner's concurrent requests interleave.
C35_AtMostQuotaAdmitted ==
    [][\A o \in Owners :
          (PassedOn(o) /\ PlanOf(o).monthly_requests # NoLimit) =>
             UsedThisMonth(o) + InFlight(o)' < PlanOf(o).monthly_requests]_vars

\* C36: UsageTrackingMiddleware passes a request on to the downstream
\* handler at most once, and exactly once when it has answered with the
\* handler's response: no exception raised in the middleware itself, before
\* the handler is called or after it has returned, runs the handler again.
C36_ForwardedOnce ==
    \A r \in Slots :
        (req[r].kind = "usage" /\ "downstream" \notin loc[r].fails) =>
            /\ loc[r].forwards <= 1
            /\ (pc[r] = "done" /\ resp[r].code # "USAGE_LIMIT_EXCEEDED") =>
                  loc[r].forwards = 1

\* A chat request that found no entry and ended in an error of the provider
\* call (500) or of an unsupported model (400).
MissError(r) ==
    /\ req[r].kind = "chat"
    /\ pc[r] = "done"
    /\ loc[r].match = 0
    /\ \/ resp[r].status = 500 /\ "llm" \in loc[r].fails
       \/ resp[r].status = 400

\* C37: when a cache-miss request has ended in an error of the provider call
\* or of an unsupported model, the cache entries (hit counts included) and
\* the usage log are exactly as they were when the request arrived.
C37_MissErrorChangesNothing ==
    \A r \in Slots :
        MissError(r) =>
            /\ cache_entries = loc[r].pre_entries
            /\ usage_logs = loc[r].pre_logs

\* A provider failure on a miss, with entries of the owner and log rows there.
C37_Witness ==
    \E r \in Slots :
        /\ MissError(r)
        /\ resp[r].status = 500
        /\ loc[r].error # {}
        /\ usage_logs # <<>>
        /\ \E i \in DOMAIN cache_entries :
              cache_entries[i].user_id = req[r].owner /\ cache_entries[i].hit_count > 0

\* C38: every cache hit in the usage log has tokens_used = 0 and cost = 0, and
\* the stats of every owner, computed or returned, have total_cost_saved = 0
\* and total_tokens_saved = 0.
C38_SavingsAlwaysZero ==
    /\ \A i \in DOMAIN usage_logs :
          usage_logs[i].cache_hit =>
             usage_logs[i].tokens_used = 0 /\ usage_logs[i].cost = 0
    /\ \A o \in Owners :
          /\ get_cache_stats(o).total_cost_saved = 0
          /\ get_cache_stats(o).total_tokens_saved = 0
    /\ \A r \in Slots :
          Stats(r) =>
             /\ resp[r].stats.total_cost_saved = 0
             /\ resp[r].stats.total_tokens_saved = 0

\* Stats returned to an owner with a hit in the log on an entry whose miss
\* cost tokens and money, the miss being in the log as well.
C38_Witness ==
    \E r \in Slots :
        /\ Stats(r)
        /\ resp[r].stats.cache_hits >= 1
        /\ resp[r].stats.total_tokens_saved = 0
        /\ \E i \in DOMAIN usage_logs :
              /\ usage_logs[i].user_id = req[r].owner
              /\ ~usage_logs[i].cache_hit
              /\ usage_logs[i].tokens_used > 0
              /\ usage_logs[i].cost > 0
        /\ \E k \in DOMAIN cache_entries :
              /\ cache_entries[k].user_id = req[r].owner
              /\ cache_entries[k].hit_count > 0
              /\ cache_entries[k].tokens_saved > 0

\* A call of refresh_access_token that has returned to its route.
Refreshed(r) == req[r].kind = "refresh" /\ pc[r] = "done"

\* The rows of the table for a token, active or not.
RowsOfToken(token) ==
    {i \in DOMAIN refresh_tokens : refresh_tokens[i].token_hash = sha256(token)}

====
